---- MODULE Spec2Model ----
(***************************************************************************)
(* JS-Runtime-Visualizer: the Runtime State Store (js/stateManager.js),    *)
(* the Instruction Translator and the Step Interpreter (Parser, Executor), *)
(* and the control handlers of the UI that drive them.                     *)
(*                                                                         *)
(* The host is a single-threaded JavaScript event loop.  Every action of   *)
(* this module is one uninterruptible piece of the program: a Store        *)
(* operation, a control handler, a host-timer callback, or the stretch of  *)
(* an async function between two awaits.  The variable "active" names the  *)
(* async invocation that holds the main thread; while it is set, no        *)
(* handler and no timer callback can start.                                *)
(***************************************************************************)
EXTENDS Integers, Sequences, FiniteSets, TLC

VARIABLES
    sm,                \* StateManager: its private state and what it delivered to subscribers
    instructions,      \* Executor.instructions
    currentIndex,      \* Executor.currentIndex
    isRunning,         \* Executor.isRunning
    isPaused,          \* Executor.isPaused
    stepResolve,       \* Executor.stepResolve: the invocation whose paused wait it releases, 0 = null
    pendingTimers,     \* Executor.pendingTimers
    pendingMicrotasks, \* Executor.pendingMicrotasks
    globalScope,       \* Executor.globalScope: id of the scope, 0 = null
    threads,           \* the live invocations of run() and step() and where each one is
    active,            \* the invocation running on the main thread, 0 = none
    hostTimers,        \* the host's outstanding setTimeout handles
    uid,               \* source of the values of Date.now() + Math.random()
    editor,            \* the code editor's text (UI.elements.codeEditor.value)
    budget,            \* control calls the controller may still issue
    hist               \* what an observer has recorded of the execution

vars == <<sm, instructions, currentIndex, isRunning, isPaused, stepResolve,
          pendingTimers, pendingMicrotasks, globalScope, threads, active,
          hostTimers, uid, editor, budget, hist>>

execVars == <<instructions, currentIndex, isRunning, isPaused, stepResolve,
              pendingTimers, pendingMicrotasks, globalScope>>

ctlVars == <<instructions, currentIndex, isRunning, isPaused, stepResolve, globalScope>>

----------------------------------------------------------------------------
(* Bounds of the model *)

MaxOps == 5          \* Store operations in one behaviour of StoreSpec
MaxMutations == 4    \* Store operations in one behaviour of MutationSpec
MaxSnapshotOps == 4  \* Store operations, snapshots and writes in one behaviour of SnapshotSpec
MaxLines == 4        \* lines of a source text in ParseSpec
MaxDeepCalls == 5    \* control calls in one behaviour of DeepSpec
MaxCalls == 4        \* control calls (init, run, step, pause, resume, stop, reset) in one behaviour
MaxProgramCalls == 3 \* control calls (init, run, step) in one behaviour of ProgramSpec

Names == {"x", "y", "f", "g", "a"}

----------------------------------------------------------------------------
(* Values *)

Undefined == [t |-> "undefined", s |-> "", n |-> 0]
Str(s)    == [t |-> "string", s |-> s, n |-> 0]
Num(n)    == [t |-> "number", s |-> "", n |-> n]
Ref(n)    == [t |-> "ref", s |-> "", n |-> n]

Unbound == [value |-> Undefined, type |-> "unbound", declarationType |-> ""]
NoVariables == [v \in Names |-> Unbound]

\* what a frame shows for a name: formatted text and type
FrameUnbound == [value |-> "", type |-> "unbound"]
NoFrameVariables == [v \in Names |-> FrameUnbound]

----------------------------------------------------------------------------
(* StateManager *)

InitialState(code, speed) ==
    [code |-> code, parsedCode |-> <<>>,
     callStack |-> <<>>,
     heap |-> {}, heapIdCounter |-> 0,
     scopes |-> <<>>, scopeIdCounter |-> 0,
     eventLoop |-> [webAPIs |-> <<>>, callbackQueue |-> <<>>, microtaskQueue |-> <<>>],
     currentLine |-> -1, currentStep |-> 0,
     isRunning |-> FALSE, isPaused |-> FALSE,
     speed |-> speed,
     timers |-> {}]

\* the topics one can subscribe to (the keys of subscribers)
Topics == {"callStack", "heap", "scopes", "eventLoop", "currentLine", "execution",
           "console", "all"}

NoSubscribers == [topic \in Topics |-> <<>>]

\* the StateManager after construction
NewStateManager(code, speed) ==
    [state |-> InitialState(code, speed), subscribers |-> NoSubscribers, notes |-> <<>>]

\* subscribe(event, callback): the callback is pushed on the list of a known
\* topic; an unknown topic is ignored
subscribe(m, event, callback) ==
    IF event \in Topics THEN [m EXCEPT !.subscribers[event] = Append(@, callback)] ELSE m

\* the function subscribe returned: the first occurrence of the callback is
\* spliced out of the list
unsubscribe(m, event, callback) ==
    IF event \in Topics /\ \E i \in 1..Len(m.subscribers[event]) : m.subscribers[event][i] = callback
    THEN LET list == m.subscribers[event]
             index == CHOOSE i \in 1..Len(list) :
                         list[i] = callback /\ \A j \in 1..(i - 1) : list[j] # callback
         IN [m EXCEPT !.subscribers[event] = SubSeq(list, 1, index - 1)
                                              \o SubSeq(list, index + 1, Len(list))]
    ELSE m

\* notify(event, data): every subscriber of the event and of 'all' is called
\* before notify returns; notes holds the calls made during the current action
\* and, in to, the callbacks each one reached, in call order.
notify(m, event, action, id, text) ==
    [m EXCEPT !.notes = Append(@, [event |-> event, action |-> action,
                                   id |-> id, text |-> text,
                                   to |-> (IF event \in Topics THEN m.subscribers[event]
                                           ELSE <<>>) \o m.subscribers["all"]])]

\* The start of an action: nothing has been delivered in it yet.
Fresh(m) == [m EXCEPT !.notes = <<>>]

Last(s) == s[Len(s)]
Front(s) == SubSeq(s, 1, Len(s) - 1)

pushCallStack_NoDeactivate(m, frame, id) ==
    LET newFrame == [id |-> id, name |-> frame.name, type |-> frame.type,
                     variables |-> frame.variables, isActive |-> TRUE]
    IN notify([m EXCEPT !.state.callStack = Append(@, newFrame)], "callStack", "push", id, "")

pushCallStack(m, frame, id) ==
    LET newFrame == [id |-> id, name |-> frame.name, type |-> frame.type,
                     variables |-> frame.variables, isActive |-> TRUE]
        cs == m.state.callStack
        deact == IF Len(cs) > 0 THEN [cs EXCEPT ![Len(cs)].isActive = FALSE] ELSE cs
    IN notify([m EXCEPT !.state.callStack = Append(deact, newFrame)], "callStack", "push", id, "")

popCallStack(m) ==
    LET cs == m.state.callStack
        popped == IF Len(cs) > 0 THEN Front(cs) ELSE cs
        react == IF Len(popped) > 0 THEN [popped EXCEPT ![Len(popped)].isActive = TRUE]
                 ELSE popped
    IN notify([m EXCEPT !.state.callStack = react], "callStack", "pop", IF Len(cs) > 0 THEN Last(cs).id ELSE 0, "")

updateFrameVariable(m, name, value, type) ==
    LET cs == m.state.callStack IN
    IF Len(cs) > 0
    THEN notify([m EXCEPT !.state.callStack[Len(cs)].variables[name] =
                     [value |-> value, type |-> type]],
                "callStack", "update", Last(cs).id, name)
    ELSE m

\* The identity allocateHeap returns: refId when given, else ref_<n> for the
\* incremented counter n (the identity is modelled by n).
allocatedId_HeapSize(m, refId) ==
    IF refId # 0 THEN refId ELSE Cardinality(m.state.heap) + 1

allocatedId(m, refId) == IF refId # 0 THEN refId ELSE m.state.heapIdCounter + 1

allocateHeap(m, type, value, refId) ==
    LET id == allocatedId(m, refId)
        heapObj == [id |-> id, type |-> type, value |-> value, references |-> {}]
        m1 == IF refId # 0 THEN m ELSE [m EXCEPT !.state.heapIdCounter = @ + 1]
    IN notify([m1 EXCEPT !.state.heap = {o \in @ : o.id # id} \cup {heapObj}],
              "heap", "allocate", id, "")

addHeapReference(m, fromId, toId) ==
    IF \E o \in m.state.heap : o.id = fromId /\ toId \notin o.references
    THEN notify([m EXCEPT !.state.heap =
                     {IF o.id = fromId THEN [o EXCEPT !.references = @ \cup {toId}] ELSE o
                        : o \in @}],
                "heap", "reference", fromId, "")
    ELSE m

deallocateHeap(m, id) ==
    IF \E o \in m.state.heap : o.id = id
    THEN notify([m EXCEPT !.state.heap = {o \in @ : o.id # id}], "heap", "deallocate", id, "")
    ELSE m

createdScopeId(m) == m.state.scopeIdCounter + 1

createScope(m, name, type, parentId) ==
    LET scope == [id |-> createdScopeId(m), name |-> name, type |-> type,
                  parentId |-> parentId, variables |-> NoVariables]
    IN notify([m EXCEPT !.state.scopeIdCounter = @ + 1,
                        !.state.scopes = Append(@, scope)],
              "scopes", "create", scope.id, "")

\* Array.prototype.findIndex over the scope list, 0 when absent
scopeIndex(m, scopeId) ==
    LET hits == {i \in 1..Len(m.state.scopes) : m.state.scopes[i].id = scopeId}
    IN IF hits = {} THEN 0 ELSE CHOOSE i \in hits : \A j \in hits : i <= j

addScopeVariable(m, scopeId, name, value, varType, declarationType) ==
    LET i == scopeIndex(m, scopeId) IN
    IF i > 0
    THEN notify([m EXCEPT !.state.scopes[i].variables[name] =
                     [value |-> value, type |-> varType, declarationType |-> declarationType]],
                "scopes", "addVariable", scopeId, name)
    ELSE m

updateScopeVariable(m, scopeId, name, value) ==
    LET i == scopeIndex(m, scopeId) IN
    IF i > 0 /\ m.state.scopes[i].variables[name].type # "unbound"
    THEN notify([m EXCEPT !.state.scopes[i].variables[name].value = value],
                "scopes", "updateVariable", scopeId, name)
    ELSE m

RemoveAt(s, i) == SubSeq(s, 1, i - 1) \o SubSeq(s, i + 1, Len(s))

\* a Store that keeps the scope
destroyScope_Keep(m, scopeId) == m

destroyScope(m, scopeId) ==
    LET i == scopeIndex(m, scopeId) IN
    IF i > 0
    THEN notify([m EXCEPT !.state.scopes = RemoveAt(@, i)], "scopes", "destroy", scopeId, "")
    ELSE m

taskIndex(q, taskId) ==
    LET hits == {i \in 1..Len(q) : q[i].id = taskId}
    IN IF hits = {} THEN 0 ELSE CHOOSE i \in hits : \A j \in hits : i <= j

addToWebAPI(m, task, id) ==
    LET apiTask == [id |-> id, name |-> task.name, callback |-> task.callback,
                    delay |-> task.delay, type |-> "timer"]
    IN notify([m EXCEPT !.state.eventLoop.webAPIs = Append(@, apiTask)],
              "eventLoop", "addWebAPI", id, "")

moveToCallbackQueue_ToFront(m, taskId) ==
    LET i == taskIndex(m.state.eventLoop.webAPIs, taskId) IN
    IF i > 0
    THEN notify([m EXCEPT !.state.eventLoop.webAPIs = RemoveAt(@, i),
                          !.state.eventLoop.callbackQueue =
                              <<m.state.eventLoop.webAPIs[i]>> \o @],
                "eventLoop", "moveToCallback", taskId, "")
    ELSE m

moveToCallbackQueue(m, taskId) ==
    LET i == taskIndex(m.state.eventLoop.webAPIs, taskId) IN
    IF i > 0
    THEN notify([m EXCEPT !.state.eventLoop.webAPIs = RemoveAt(@, i),
                          !.state.eventLoop.callbackQueue =
                              Append(@, m.state.eventLoop.webAPIs[i])],
                "eventLoop", "moveToCallback", taskId, "")
    ELSE m

addToMicrotaskQueue(m, task, id) ==
    LET microTask == [id |-> id, name |-> task.name, callback |-> task.callback,
                      delay |-> 0, type |-> "microtask"]
    IN notify([m EXCEPT !.state.eventLoop.microtaskQueue = Append(@, microTask)],
              "eventLoop", "addMicrotask", id, "")

processNextMicrotask(m) ==
    IF Len(m.state.eventLoop.microtaskQueue) > 0
    THEN notify([m EXCEPT !.state.eventLoop.microtaskQueue = Tail(@)],
                "eventLoop", "processMicrotask", Head(m.state.eventLoop.microtaskQueue).id, "")
    ELSE m

processNextCallback(m) ==
    IF Len(m.state.eventLoop.callbackQueue) > 0
    THEN notify([m EXCEPT !.state.eventLoop.callbackQueue = Tail(@)],
                "eventLoop", "processCallback", Head(m.state.eventLoop.callbackQueue).id, "")
    ELSE m

setCurrentLine(m, line) ==
    notify([m EXCEPT !.state.currentLine = line], "currentLine", "", line, "")

incrementStep(m) == [m EXCEPT !.state.currentStep = @ + 1]

setExecutionState(m, running, paused) ==
    notify([m EXCEPT !.state.isRunning = running, !.state.isPaused = paused],
           "execution", IF running THEN "running" ELSE "stopped", IF paused THEN 1 ELSE 0, "")

setCode(m, code) == notify([m EXCEPT !.state.code = code], "code", "", code, "")

setParsedCode(m, parsed) == [m EXCEPT !.state.parsedCode = parsed]

setSpeed(m, speed) == [m EXCEPT !.state.speed = speed]

logConsole(m, type, text) == notify(m, "console", type, 0, text)

\* a Store that keeps no record of the handle
addTimer_Forget(m, timerId) == m

addTimer(m, timerId) == [m EXCEPT !.state.timers = @ \cup {timerId}]

reset_DefaultSpeed(m) ==
    LET m0 == [m EXCEPT !.state = InitialState(m.state.code, 1000)]
        m1 == notify(m0, "callStack", "reset", 0, "")
        m2 == notify(m1, "heap", "reset", 0, "")
        m3 == notify(m2, "scopes", "reset", 0, "")
        m4 == notify(m3, "eventLoop", "reset", 0, "")
        m5 == notify(m4, "currentLine", "", -1, "")
    IN notify(m5, "execution", "stopped", 0, "")

\* reset(): the state object is replaced; code and speed are kept.  (The
\* clearTimeout calls on state.timers are the caller's part, see CancelTracked.)
reset_KeepCallStack(m) ==
    LET m0 == [m EXCEPT !.state = [InitialState(m.state.code, m.state.speed)
                                      EXCEPT !.callStack = m.state.callStack]]
        m1 == notify(m0, "callStack", "reset", 0, "")
        m2 == notify(m1, "heap", "reset", 0, "")
        m3 == notify(m2, "scopes", "reset", 0, "")
        m4 == notify(m3, "eventLoop", "reset", 0, "")
        m5 == notify(m4, "currentLine", "", -1, "")
    IN notify(m5, "execution", "stopped", 0, "")

reset(m) ==
    LET m0 == [m EXCEPT !.state = InitialState(m.state.code, m.state.speed)]
        m1 == notify(m0, "callStack", "reset", 0, "")
        m2 == notify(m1, "heap", "reset", 0, "")
        m3 == notify(m2, "scopes", "reset", 0, "")
        m4 == notify(m3, "eventLoop", "reset", 0, "")
        m5 == notify(m4, "currentLine", "", -1, "")
    IN notify(m5, "execution", "stopped", 0, "")

----------------------------------------------------------------------------
(* Parser *)

(* A source text is a sequence of lines.  A line is described by what the    *)
(* recognisers of parse() see in it: which of the regular expressions match  *)
(* it (matches), what the first matching one captures, and how many "{" and  *)
(* "}" it holds.  text: the lines of the callback (a timer or promise line)  *)
(* or of the inline body (a single-line function).                           *)

NoExpr == [type |-> "none", value |-> Undefined, name |-> "", args |-> <<>>]
Lit(v) == [type |-> v.t, value |-> v, name |-> "", args |-> <<>>]
RefExpr(nm) == [type |-> "reference", value |-> Undefined, name |-> nm, args |-> <<>>]
CallExpr(nm, args) == [type |-> "call", value |-> Undefined, name |-> nm, args |-> args]

BlankLine ==
    [blank |-> TRUE, matches |-> {}, name |-> "", params |-> <<>>, decl |-> "",
     value |-> NoExpr, args |-> <<>>, method |-> "", text |-> <<>>, delay |-> 0,
     opens |-> 0, closes |-> 0]

OtherLine == [BlankLine EXCEPT !.blank = FALSE]
CloseLine == [OtherLine EXCEPT !.closes = 1]
FunctionOpenLine(nm, params) ==
    [OtherLine EXCEPT !.matches = {"function"}, !.name = nm, !.params = params, !.opens = 1]
FunctionInline(nm, params, body) ==
    [OtherLine EXCEPT !.matches = {"function"}, !.name = nm, !.params = params,
                      !.opens = 1, !.closes = 1, !.text = body]
VarLine(decl, nm, expr) ==
    [OtherLine EXCEPT !.matches = {"var"}, !.decl = decl, !.name = nm, !.value = expr]
VarNoInitLine(decl, nm) ==
    [OtherLine EXCEPT !.matches = {"varNoInit"}, !.decl = decl, !.name = nm]
TimeoutLine(body, d) ==
    [OtherLine EXCEPT !.matches = {"setTimeoutArrow"}, !.text = body, !.delay = d]
\* The promise recogniser captures the body of a then(function() { ... })
\* whole; of a then(() => ...) it captures the text up to the first ")" or
\* "}", so body is what parse() recognises in that text.
PromiseLine(body) == [OtherLine EXCEPT !.matches = {"promise"}, !.text = body]
ConsoleLine(method, args) ==
    [OtherLine EXCEPT !.matches = {"console", "methodCall"}, !.method = method, !.args = args]
CallLine(nm, args) == [OtherLine EXCEPT !.matches = {"call"}, !.name = nm, !.args = args]
AssignLine(nm, expr) ==
    [OtherLine EXCEPT !.matches = {"assignment"}, !.name = nm, !.value = expr]
ReturnLine(expr) == [OtherLine EXCEPT !.matches = {"return"}, !.value = expr]

NoInst ==
    [type |-> "none", name |-> "", params |-> <<>>, body |-> <<>>, declarationType |-> "",
     value |-> NoExpr, args |-> <<>>, method |-> "", callback |-> <<>>, delay |-> 0,
     line |-> 0, endLine |-> 0, functions |-> <<>>, vars |-> <<>>, hoisted |-> FALSE]

\* The instruction the first matching recogniser builds from a line that is
\* not a function declaration; NoInst when no recogniser matches.
Recognise(ln, lineNumber) ==
    LET I == [NoInst EXCEPT !.line = lineNumber] IN
    IF "var" \in ln.matches
      THEN [I EXCEPT !.type = "variableDeclaration", !.declarationType = ln.decl,
                     !.name = ln.name, !.value = ln.value]
    ELSE IF "varNoInit" \in ln.matches
      THEN [I EXCEPT !.type = "variableDeclaration", !.declarationType = ln.decl,
                     !.name = ln.name, !.value = Lit(Undefined)]
    ELSE IF "setTimeout" \in ln.matches \/ "setTimeoutArrow" \in ln.matches
      THEN [I EXCEPT !.type = "setTimeout", !.callback = ln.text, !.delay = ln.delay]
    ELSE IF "promise" \in ln.matches
      THEN [I EXCEPT !.type = "promise", !.callback = ln.text]
    ELSE IF "console" \in ln.matches
      THEN [I EXCEPT !.type = "console", !.method = ln.method, !.args = ln.args]
    ELSE IF "call" \in ln.matches
      THEN [I EXCEPT !.type = "functionCall", !.name = ln.name, !.args = ln.args]
    ELSE IF "methodCall" \in ln.matches
      THEN [I EXCEPT !.type = "methodCall", !.name = ln.name, !.method = ln.method,
                     !.args = ln.args]
    ELSE IF "assignment" \in ln.matches
      THEN [I EXCEPT !.type = "assignment", !.name = ln.name, !.value = ln.value]
    ELSE IF "return" \in ln.matches
      THEN [I EXCEPT !.type = "return", !.value = ln.value]
    ELSE IF "new" \in ln.matches
      THEN [I EXCEPT !.type = "newObject", !.declarationType = ln.decl, !.name = ln.name,
                     !.args = ln.args]
    ELSE NoInst

\* a loop that ends the function at the first line holding a "}"
RECURSIVE ParseLines_FirstClose(_, _, _, _, _, _)
ParseLines_FirstClose(lines, i, acc, fn, body, braces) ==
    IF i > Len(lines) THEN acc
    ELSE LET ln == lines[i] IN
         IF ln.blank THEN ParseLines_FirstClose(lines, i + 1, acc, fn, body, braces)
         ELSE IF fn.type # "none"
           THEN LET b == IF ln.closes > 0 THEN 0 ELSE braces + ln.opens IN
                IF b = 0
                THEN ParseLines_FirstClose(lines, i + 1,
                                Append(acc, [fn EXCEPT !.body = body, !.endLine = i]),
                                NoInst, <<>>, b)
                ELSE ParseLines_FirstClose(lines, i + 1, acc, fn, Append(body, ln), b)
         ELSE IF "function" \in ln.matches
           THEN LET f == [NoInst EXCEPT !.type = "functionDeclaration", !.name = ln.name,
                                        !.params = ln.params, !.line = i]
                    b == ln.opens - ln.closes
                IN IF b = 0 /\ ln.opens > 0 /\ ln.closes > 0
                   THEN ParseLines_FirstClose(lines, i + 1,
                                   Append(acc, [f EXCEPT !.body = ln.text, !.endLine = i]),
                                   NoInst, <<>>, b)
                   ELSE ParseLines_FirstClose(lines, i + 1, acc, f, <<>>, b)
         ELSE LET inst == Recognise(ln, i) IN
              ParseLines_FirstClose(lines, i + 1,
                         IF inst.type = "none" THEN acc ELSE Append(acc, inst),
                         fn, body, braces)

\* The loop of parse() from line i on.  acc: the instructions so far;
\* fn: the function declaration being collected (NoInst = null);
\* body: its lines so far; braces: braceCount.
RECURSIVE ParseLines(_, _, _, _, _, _)
ParseLines(lines, i, acc, fn, body, braces) ==
    IF i > Len(lines) THEN acc
    ELSE LET ln == lines[i] IN
         IF ln.blank THEN ParseLines(lines, i + 1, acc, fn, body, braces)
         ELSE IF fn.type # "none"
           THEN LET b == braces + ln.opens - ln.closes IN
                IF b = 0
                THEN ParseLines(lines, i + 1,
                                Append(acc, [fn EXCEPT !.body = body, !.endLine = i]),
                                NoInst, <<>>, b)
                ELSE ParseLines(lines, i + 1, acc, fn, Append(body, ln), b)
         ELSE IF "function" \in ln.matches
           THEN LET f == [NoInst EXCEPT !.type = "functionDeclaration", !.name = ln.name,
                                        !.params = ln.params, !.line = i]
                    b == ln.opens - ln.closes
                IN IF b = 0 /\ ln.opens > 0 /\ ln.closes > 0
                   THEN ParseLines(lines, i + 1,
                                   Append(acc, [f EXCEPT !.body = ln.text, !.endLine = i]),
                                   NoInst, <<>>, b)
                   ELSE ParseLines(lines, i + 1, acc, f, <<>>, b)
         ELSE LET inst == Recognise(ln, i) IN
              ParseLines(lines, i + 1,
                         IF inst.type = "none" THEN acc ELSE Append(acc, inst),
                         fn, body, braces)

IsFunctionDeclaration(inst) == inst.type = "functionDeclaration"
IsVar(inst) == inst.type = "variableDeclaration" /\ inst.declarationType = "var"

RECURSIVE SeqMap(_, _)
SeqMap(Op(_), s) == IF s = <<>> THEN <<>> ELSE <<Op(Head(s))>> \o SeqMap(Op, Tail(s))

processHoisting_AnyDeclaration(insts) ==
    LET IsDeclaration(x) == x.type = "variableDeclaration"
        Hoist(f) == [f EXCEPT !.hoisted = TRUE]
        HoistedVar(v) == [NoInst EXCEPT !.type = "hoistedVar", !.name = v.name, !.line = v.line]
        NameOf(x) == x.name
        NotFunction(x) == ~IsFunctionDeclaration(x)
        functionDeclarations == SeqMap(Hoist, SelectSeq(insts, IsFunctionDeclaration))
        varDeclarations == SeqMap(HoistedVar, SelectSeq(insts, IsDeclaration))
        rest == SelectSeq(insts, NotFunction)
        hoisted == IF Len(functionDeclarations) > 0 \/ Len(varDeclarations) > 0
                   THEN <<[NoInst EXCEPT !.type = "hoistingPhase",
                                         !.functions = SeqMap(NameOf, functionDeclarations),
                                         !.vars = SeqMap(NameOf, varDeclarations)]>>
                   ELSE <<>>
    IN hoisted \o functionDeclarations \o varDeclarations \o rest

processHoisting(insts) ==
    LET Hoist(f) == [f EXCEPT !.hoisted = TRUE]
        HoistedVar(v) == [NoInst EXCEPT !.type = "hoistedVar", !.name = v.name, !.line = v.line]
        NameOf(x) == x.name
        NotFunction(x) == ~IsFunctionDeclaration(x)
        functionDeclarations == SeqMap(Hoist, SelectSeq(insts, IsFunctionDeclaration))
        varDeclarations == SeqMap(HoistedVar, SelectSeq(insts, IsVar))
        rest == SelectSeq(insts, NotFunction)
        hoisted == IF Len(functionDeclarations) > 0 \/ Len(varDeclarations) > 0
                   THEN <<[NoInst EXCEPT !.type = "hoistingPhase",
                                         !.functions = SeqMap(NameOf, functionDeclarations),
                                         !.vars = SeqMap(NameOf, varDeclarations)]>>
                   ELSE <<>>
    IN hoisted \o functionDeclarations \o varDeclarations \o rest

parse(code) == processHoisting(ParseLines(code, 1, <<>>, NoInst, <<>>, 0))

parseBody(body) == parse(body)

----------------------------------------------------------------------------
(* Executor: values and lookups *)

Digits == <<"0", "1", "2", "3", "4", "5", "6", "7", "8", "9">>

RECURSIVE NumStr(_)
NumStr(n) == IF n < 10 THEN Digits[n + 1] ELSE NumStr(n \div 10) \o Digits[(n % 10) + 1]

\* 'ref_<n>', the text of a heap identity
RefText(n) == "ref_" \o NumStr(n)

getValueType(value) ==
    IF value.t = "ref" THEN "string" ELSE value.t

formatValue(value) ==
    CASE value.t = "undefined" -> "undefined"
      [] value.t = "null" -> "null"
      [] value.t = "string" -> "\"" \o value.s \o "\""
      [] value.t = "ref" -> "\"" \o RefText(value.n) \o "\""
      [] value.t = "function" -> "[Function]"
      [] value.t = "number" -> NumStr(value.n)
      [] OTHER -> value.s

RECURSIVE Join(_, _)
Join(strs, sep) ==
    IF strs = <<>> THEN ""
    ELSE IF Len(strs) = 1 THEN strs[1]
    ELSE strs[1] \o sep \o Join(Tail(strs), sep)

IsBound(scope, name) == name \in Names /\ scope.variables[name].type # "unbound"

\* the index of the innermost scope binding the name, 0 when none does
bindingIndex(m, name) ==
    LET hits == {i \in 1..Len(m.state.scopes) : IsBound(m.state.scopes[i], name)}
    IN IF hits = {} THEN 0 ELSE CHOOSE i \in hits : \A j \in hits : j <= i

\* a lookup that searches the scope list from the front
lookupVariable_Outermost(m, name) ==
    LET hits == {i \in 1..Len(m.state.scopes) : IsBound(m.state.scopes[i], name)}
    IN IF hits = {} THEN Undefined
       ELSE m.state.scopes[CHOOSE i \in hits : \A j \in hits : i <= j].variables[name].value

lookupVariable(m, name) ==
    LET i == bindingIndex(m, name)
    IN IF i = 0 THEN Undefined ELSE m.state.scopes[i].variables[name].value

\* the first scope of the list taken for the current one
getCurrentScopeId_Global(m) ==
    IF Len(m.state.scopes) > 0 THEN m.state.scopes[1].id ELSE 0

getCurrentScopeId(m) ==
    IF Len(m.state.scopes) > 0 THEN Last(m.state.scopes).id ELSE 0

\* a search for the binding scope that starts at the first scope
findVariableScope_Outermost(m, name) ==
    LET hits == {i \in 1..Len(m.state.scopes) : IsBound(m.state.scopes[i], name)}
    IN IF hits = {} THEN getCurrentScopeId(m)
       ELSE m.state.scopes[CHOOSE i \in hits : \A j \in hits : i <= j].id

findVariableScope(m, name) ==
    LET i == bindingIndex(m, name)
    IN IF i = 0 THEN getCurrentScopeId(m) ELSE m.state.scopes[i].id

\* a search that takes the first function declaration whatever its name
findFunction_AnyName(insts, name) ==
    LET hits == {i \in 1..Len(insts) : IsFunctionDeclaration(insts[i])}
    IN IF hits = {} THEN NoInst ELSE insts[CHOOSE i \in hits : \A j \in hits : i <= j]

\* a lookup that also searches the bodies of the declarations of the list
findFunction_InBodies(insts, name) ==
    LET Decls(list) == {i \in 1..Len(list) : IsFunctionDeclaration(list[i])}
        First(list) ==
            LET hits == {i \in Decls(list) : list[i].name = name}
            IN IF hits = {} THEN NoInst ELSE list[CHOOSE i \in hits : \A j \in hits : i <= j]
        inner == {i \in Decls(insts) : First(parseBody(insts[i].body)).type # "none"}
    IN IF First(insts).type # "none" THEN First(insts)
       ELSE IF inner = {} THEN NoInst
       ELSE First(parseBody(insts[CHOOSE i \in inner : \A j \in inner : i <= j].body))

\* instructions.find(i => i.type === 'functionDeclaration' && i.name === name)
findFunction(insts, name) ==
    LET hits == {i \in 1..Len(insts) : IsFunctionDeclaration(insts[i]) /\ insts[i].name = name}
    IN IF hits = {} THEN NoInst ELSE insts[CHOOSE i \in hits : \A j \in hits : i <= j]

\* resolveValue for every expression but a call, which runs a function first
resolveValue(m, valueExpr) ==
    CASE valueExpr.type = "none" -> Undefined
      [] valueExpr.type = "reference" -> lookupVariable(m, valueExpr.name)
      [] valueExpr.type = "call" -> Undefined
      [] valueExpr.type \in {"function", "arrowFunction"} ->
            [t |-> "function", s |-> "", n |-> 0]
      [] OTHER -> valueExpr.value

----------------------------------------------------------------------------
(* Executor: one instruction *)

(* The part of the state an instruction can change, as one record, so that  *)
(* the operations of one handler compose in the order the code calls them.  *)
World ==
    [sm |-> Fresh(sm), pendingTimers |-> pendingTimers,
     pendingMicrotasks |-> pendingMicrotasks, hostTimers |-> hostTimers, uid |-> uid]

Store(w, m) == [w EXCEPT !.sm = m]

\* setTimeout(callback, ms) of the host, with StateManager.addTimer(timerId)
hostSetTimeout(w, kind, thread, task, ms) ==
    LET timerId == w.uid + 1
    IN [w EXCEPT !.uid = timerId,
                 !.hostTimers = @ \cup {[id |-> timerId, kind |-> kind, thread |-> thread,
                                         task |-> task, ms |-> ms]},
                 !.sm = addTimer(@, timerId)]

\* delay(): the caller waits for a timer of state.speed milliseconds
delay(w, thread) == hostSetTimeout(w, "delay", thread, 0, w.sm.state.speed)

executeHoisting(w, inst) ==
    Store(w, logConsole(w.sm, "info",
                        "Hoisting: Functions [" \o Join(inst.functions, ", ")
                            \o "], Vars [" \o Join(inst.vars, ", ") \o "]"))

HeapFunction(name, closure) == [kind |-> "function", name |-> name, closure |-> closure]
HeapData(kind) == [kind |-> kind, name |-> "", closure |-> 0]

executeFunctionDeclaration(w, inst) ==
    LET scopeId == getCurrentScopeId(w.sm)
        funcId == allocatedId(w.sm, 0)
        m1 == allocateHeap(w.sm, "function", HeapFunction(inst.name, scopeId), 0)
        m2 == addScopeVariable(m1, scopeId, inst.name, Ref(funcId), "function", "function")
    IN Store(w, updateFrameVariable(m2, inst.name, "[Function: " \o inst.name \o "]",
                                    "function"))

executeHoistedVar(w, inst) ==
    LET m1 == addScopeVariable(w.sm, getCurrentScopeId(w.sm), inst.name, Undefined,
                               "undefined", "var")
    IN Store(w, updateFrameVariable(m1, inst.name, "undefined", "undefined"))

\* typeof value === 'object' && value !== null
IsObject(value) == value.t \in {"array", "object", "function"}

executeVariableDeclaration(w, inst, value) ==
    LET valueType == getValueType(value)
        heapId == allocatedId(w.sm, 0)
        m1 == IF IsObject(value)
              THEN allocateHeap(w.sm, IF value.t = "array" THEN "array" ELSE "object",
                                HeapData(value.t), 0)
              ELSE w.sm
        storedValue == IF IsObject(value) THEN Ref(heapId) ELSE value
        m2 == addScopeVariable(m1, getCurrentScopeId(m1), inst.name, storedValue, valueType,
                               inst.declarationType)
    IN Store(w, updateFrameVariable(m2, inst.name, formatValue(value), valueType))

executeAssignment(w, inst, value) ==
    LET m1 == updateScopeVariable(w.sm, findVariableScope(w.sm, inst.name), inst.name, value)
    IN Store(w, updateFrameVariable(m1, inst.name, formatValue(value), getValueType(value)))

executeConsole(w, inst) ==
    LET Formatted(arg) == formatValue(resolveValue(w.sm, arg))
    IN Store(w, logConsole(w.sm, inst.method, Join(SeqMap(Formatted, inst.args), " ")))

executeMethodCall(w, inst) ==
    IF inst.name = "console" THEN executeConsole(w, inst) ELSE w

executeSetTimeout(w, inst) ==
    LET taskId == w.uid + 1
        apiId == w.uid + 2
        m1 == addToWebAPI(w.sm, [name |-> "setTimeout", callback |-> inst.callback,
                                 delay |-> inst.delay], apiId)
        m2 == logConsole(m1, "info", "setTimeout registered (" \o NumStr(inst.delay) \o "ms)")
        speed == w.sm.state.speed
        w1 == hostSetTimeout([w EXCEPT !.sm = m2, !.uid = apiId], "migrate", 0, apiId,
                             IF inst.delay < speed THEN inst.delay ELSE speed)
    IN [w1 EXCEPT !.pendingTimers = Append(@, [id |-> taskId, callback |-> inst.callback])]

executePromise(w, inst) ==
    LET m1 == addToMicrotaskQueue(w.sm, [name |-> "Promise.then", callback |-> inst.callback],
                                  w.uid + 1)
        m2 == logConsole(m1, "info", "Promise.then added to microtask queue")
    IN [w EXCEPT !.sm = m2, !.uid = @ + 1,
                 !.pendingMicrotasks = Append(@, [callback |-> inst.callback])]

executeReturn(w, inst, value) ==
    Store(w, logConsole(w.sm, "log", "Return: " \o formatValue(value)))

executeNewObject(w, inst) ==
    LET heapId == allocatedId(w.sm, 0)
        m1 == allocateHeap(w.sm, "object", HeapData("object"), 0)
        m2 == addScopeVariable(m1, getCurrentScopeId(m1), inst.name, Ref(heapId), "object",
                               inst.declarationType)
    IN Store(w, updateFrameVariable(m2, inst.name, "{...}", "object"))

\* executeInstruction for an instruction that runs no function body; value is
\* what resolveValue gave for the instruction's value expression
executeInstruction(w, inst, value) ==
    CASE inst.type = "hoistingPhase" -> executeHoisting(w, inst)
      [] inst.type = "functionDeclaration" -> executeFunctionDeclaration(w, inst)
      [] inst.type = "hoistedVar" -> executeHoistedVar(w, inst)
      [] inst.type = "variableDeclaration" -> executeVariableDeclaration(w, inst, value)
      [] inst.type = "assignment" -> executeAssignment(w, inst, value)
      [] inst.type = "methodCall" -> executeMethodCall(w, inst)
      [] inst.type = "console" -> executeConsole(w, inst)
      [] inst.type = "setTimeout" -> executeSetTimeout(w, inst)
      [] inst.type = "promise" -> executePromise(w, inst)
      [] inst.type = "return" -> executeReturn(w, inst, value)
      [] inst.type = "newObject" -> executeNewObject(w, inst)
      [] OTHER -> w

\* an instruction whose execution starts with executeFunctionCall
CallsFunction(inst) ==
    \/ inst.type = "functionCall"
    \/ inst.type \in {"variableDeclaration", "assignment", "return"} /\ inst.value.type = "call"

hasPendingTasks(w) ==
    \/ Len(w.sm.state.eventLoop.webAPIs) > 0
    \/ Len(w.sm.state.eventLoop.callbackQueue) > 0
    \/ Len(w.sm.state.eventLoop.microtaskQueue) > 0
    \/ Len(w.pendingTimers) > 0
    \/ Len(w.pendingMicrotasks) > 0

----------------------------------------------------------------------------
(* The observer: a subscriber of the topics 'console' and 'heap' that keeps   *)
(* what it was handed.                                                        *)

\* the identities of the frames, scopes and heap objects of a state
FrameIds(st) == {st.callStack[i].id : i \in 1..Len(st.callStack)}
ScopeIds(st) == {st.scopes[i].id : i \in 1..Len(st.scopes)}
HeapIds(st) == {o.id : o \in st.heap}

\* getState(): a new object with the fields of state, the call stack, the
\* scope list, the heap map and the queues copied one level deep.  The frames,
\* scopes and heap objects in the copies, and the timers array, are the Store's
\* own objects: frames, scopes, heap name the ones still shared, timers tells
\* whether the array is.  view is what the holder reads; taken is the value
\* the state had when the snapshot was taken.
getState(m) ==
    [held |-> TRUE, taken |-> m.state, view |-> m.state,
     frames |-> FrameIds(m.state), scopes |-> ScopeIds(m.state), heap |-> HeapIds(m.state),
     timers |-> TRUE]

\* The snapshot after the Store operation that led to m: an object that has
\* left the Store keeps its last value and is shared no more; reset() replaces
\* the whole state, allocateHeap a heap object of the same identity; an object
\* still shared shows what the operation wrote into it.
Shared(snap, m) ==
    IF ~snap.held THEN snap
    ELSE LET st == m.state
             replaced == \E i \in 1..Len(m.notes) :
                             m.notes[i].event = "callStack" /\ m.notes[i].action = "reset"
             allocated == {m.notes[i].id : i \in {j \in 1..Len(m.notes) :
                              m.notes[j].event = "heap" /\ m.notes[j].action = "allocate"}}
             frames == IF replaced THEN {} ELSE snap.frames \cap FrameIds(st)
             scopes == IF replaced THEN {} ELSE snap.scopes \cap ScopeIds(st)
             heap == IF replaced THEN {} ELSE (snap.heap \cap HeapIds(st)) \ allocated
             timers == snap.timers /\ ~replaced
             now(list, ids, cur) ==
                 [i \in DOMAIN list |->
                     IF list[i].id \in ids
                     THEN cur[CHOOSE j \in 1..Len(cur) : cur[j].id = list[i].id]
                     ELSE list[i]]
         IN [snap EXCEPT
               !.frames = frames, !.scopes = scopes, !.heap = heap, !.timers = timers,
               !.view.callStack = now(@, frames, st.callStack),
               !.view.scopes = now(@, scopes, st.scopes),
               !.view.heap = {IF o.id \in heap THEN CHOOSE n \in st.heap : n.id = o.id ELSE o
                                : o \in @},
               !.view.timers = IF timers THEN st.timers ELSE @]

\* The holder of the snapshot writes a variable into the frame at index i of
\* its callStack (snapshot.callStack[i].variables[name] = ...): the write goes
\* into the frame object, which is the Store's frame while it is shared.
writeSnapshotFrame(snap, m, i, name, entry) ==
    LET id == snap.view.callStack[i].id
        cs == m.state.callStack
    IN [sm |-> IF id \in snap.frames
               THEN [m EXCEPT !.state.callStack[CHOOSE j \in 1..Len(cs) : cs[j].id = id]
                                 .variables[name] = entry]
               ELSE m,
        snapshot |-> [snap EXCEPT !.view.callStack[i].variables[name] = entry,
                                  !.taken.callStack[i].variables[name] = entry]]

\* the same for the scope at index i of its scopes
writeSnapshotScope(snap, m, i, name, entry) ==
    LET id == snap.view.scopes[i].id
        sc == m.state.scopes
    IN [sm |-> IF id \in snap.scopes
               THEN [m EXCEPT !.state.scopes[CHOOSE j \in 1..Len(sc) : sc[j].id = id]
                                 .variables[name] = entry]
               ELSE m,
        snapshot |-> [snap EXCEPT !.view.scopes[i].variables[name] = entry,
                                  !.taken.scopes[i].variables[name] = entry]]

\* the holder assigns a field of the snapshot object itself
writeSnapshotLine(snap, m, line) ==
    [sm |-> m,
     snapshot |-> [snap EXCEPT !.view.currentLine = line, !.taken.currentLine = line]]

RECURSIVE Observe(_, _)
Observe(h, notes) ==
    IF notes = <<>> THEN h
    ELSE LET e == Head(notes)
             h1 == IF e.event = "console"
                     THEN [h EXCEPT !.console = Append(@, [type |-> e.action, text |-> e.text])]
                   ELSE IF e.event = "scopes" /\ e.action = "create"
                     THEN [h EXCEPT !.pairs = @ \cup {[scope |-> e.id, frame |-> 0]}]
                   ELSE IF e.event = "callStack" /\ e.action = "push"
                     THEN [h EXCEPT !.pairs =
                              {IF p.frame = 0 THEN [p EXCEPT !.frame = e.id] ELSE p : p \in @}]
                   ELSE IF e.event = "heap" /\ e.action \in {"allocate", "deallocate"}
                     THEN [h EXCEPT !.heapLog = Append(@, [op |-> e.action, id |-> e.id])]
                   ELSE IF e.event = "heap" /\ e.action = "reset"
                     THEN [h EXCEPT !.heapLog = <<>>,
                                    !.retired = @ \cup
                                       {h.heapLog[i].id : i \in
                                          {j \in 1..Len(h.heapLog) : h.heapLog[j].op = "allocate"}}]
                   ELSE h
         IN Observe(h1, Tail(notes))

Deliver(m) == sm' = m /\ hist' = Observe([hist EXCEPT !.snapshot = Shared(@, m)], m.notes)

NoCalls == <<>>

\* console: the console entries; heapLog: allocations and deallocations since
\* the last reset; calls: the control operations called, in order;
\* execTrace: the cursor values whose instruction step() started since init;
\* stale: the invocations that were still waiting when reset() was called;
\* completed: how many invocations had begun when step() first reported no
\* more work since the last init or reset, -1 before that
\* snapshot: the object the last getState() returned, as its holder sees it;
\* edits: how often the holder wrote into it;
\* passes: for each invocation inside processEventLoop what it found on entry;
\* overlap: whether run() or step() was called while an invocation was live;
\* dropped: the identities of the timer tasks a reset() found registered;
\* retired: the heap identities allocated before the last reset;
\* pairs: each scope created with the frame pushed next after it
InitHist ==
    [console |-> <<>>, heapLog |-> <<>>, calls |-> NoCalls, execTrace |-> <<>>, stale |-> {},
     completed |-> -1, snapshot |-> [held |-> FALSE], edits |-> 0, passes |-> {},
     overlap |-> FALSE, dropped |-> {}, retired |-> {},
     pairs |-> {}]

----------------------------------------------------------------------------
(* The Store on its own: any sequence of its operations *)

DefaultSpeed == 1000

StoreInit ==
    /\ sm = NewStateManager(0, DefaultSpeed)
    /\ instructions = <<>> /\ currentIndex = 0
    /\ isRunning = FALSE /\ isPaused = FALSE /\ stepResolve = 0
    /\ pendingTimers = <<>> /\ pendingMicrotasks = <<>> /\ globalScope = 0
    /\ threads = <<>> /\ active = 0 /\ hostTimers = {}
    /\ uid = 0 /\ editor = 0 /\ budget = MaxOps
    /\ hist = InitHist

StoreOp(m) ==
    /\ budget > 0
    /\ budget' = budget - 1
    /\ Deliver(m)
    /\ UNCHANGED <<execVars, threads, active, hostTimers, editor>>

QueueIds(q) == {q[i].id : i \in 1..Len(q)}

StorePushCallStack ==
    /\ \E nm \in {"f", "g"} :
          StoreOp(pushCallStack(Fresh(sm), [name |-> nm, type |-> "function",
                                            variables |-> NoFrameVariables], uid + 1))
    /\ uid' = uid + 1

StorePopCallStack == StoreOp(popCallStack(Fresh(sm))) /\ UNCHANGED uid

StoreUpdateFrameVariable ==
    /\ \E nm \in Names : StoreOp(updateFrameVariable(Fresh(sm), nm, "1", "number"))
    /\ UNCHANGED uid

StoreAllocateHeap ==
    /\ \E ty \in {"object", "array"} : StoreOp(allocateHeap(Fresh(sm), ty, HeapData(ty), 0))
    /\ UNCHANGED uid

StoreDeallocateHeap ==
    /\ \E id \in 1..(sm.state.heapIdCounter + 1) : StoreOp(deallocateHeap(Fresh(sm), id))
    /\ UNCHANGED uid

StoreAddToWebAPI ==
    /\ StoreOp(addToWebAPI(Fresh(sm), [name |-> "setTimeout", callback |-> <<>>, delay |-> 0],
                           uid + 1))
    /\ uid' = uid + 1

StoreMoveToCallbackQueue ==
    /\ \E id \in 1..uid : StoreOp(moveToCallbackQueue(Fresh(sm), id))
    /\ UNCHANGED uid

StoreAddToMicrotaskQueue ==
    /\ StoreOp(addToMicrotaskQueue(Fresh(sm), [name |-> "Promise.then", callback |-> <<>>],
                                   uid + 1))
    /\ uid' = uid + 1

StoreProcessNextMicrotask == StoreOp(processNextMicrotask(Fresh(sm))) /\ UNCHANGED uid

StoreProcessNextCallback == StoreOp(processNextCallback(Fresh(sm))) /\ UNCHANGED uid

StoreReset == StoreOp(reset(Fresh(sm))) /\ UNCHANGED uid

StoreNext ==
    \/ StorePushCallStack \/ StorePopCallStack \/ StoreUpdateFrameVariable
    \/ StoreAllocateHeap \/ StoreDeallocateHeap
    \/ StoreAddToWebAPI \/ StoreMoveToCallbackQueue \/ StoreAddToMicrotaskQueue
    \/ StoreProcessNextMicrotask \/ StoreProcessNextCallback
    \/ StoreReset

StoreSpec == StoreInit /\ [][StoreNext]_vars

----------------------------------------------------------------------------
(* The Store with its subscribers: any sequence of its operations *)

Callbacks == {1, 2}

\* the topics handlers ask for: two topics, the catch-all, and one that does
\* not exist
AskedTopics == {"callStack", "execution", "all", "code"}

MutationInit ==
    /\ sm = NewStateManager(0, DefaultSpeed)
    /\ instructions = <<>> /\ currentIndex = 0
    /\ isRunning = FALSE /\ isPaused = FALSE /\ stepResolve = 0
    /\ pendingTimers = <<>> /\ pendingMicrotasks = <<>> /\ globalScope = 0
    /\ threads = <<>> /\ active = 0 /\ hostTimers = {}
    /\ uid = 0 /\ editor = 0 /\ budget = MaxMutations
    /\ hist = InitHist

StoreSubscribe ==
    /\ \E topic \in AskedTopics, cb \in Callbacks : StoreOp(subscribe(Fresh(sm), topic, cb))
    /\ UNCHANGED uid

StoreUnsubscribe ==
    /\ \E topic \in AskedTopics, cb \in Callbacks : StoreOp(unsubscribe(Fresh(sm), topic, cb))
    /\ UNCHANGED uid

StoreAddHeapReference ==
    /\ \E from \in 1..sm.state.heapIdCounter, to \in 1..sm.state.heapIdCounter :
          StoreOp(addHeapReference(Fresh(sm), from, to))
    /\ UNCHANGED uid

StoreCreateScope ==
    /\ StoreOp(createScope(Fresh(sm), "f", "function",
                           IF sm.state.scopes = <<>> THEN 0 ELSE Last(sm.state.scopes).id))
    /\ UNCHANGED uid

StoreAddScopeVariable ==
    /\ \E id \in 1..(sm.state.scopeIdCounter + 1) :
          StoreOp(addScopeVariable(Fresh(sm), id, "x", Num(1), "number", "let"))
    /\ UNCHANGED uid

StoreUpdateScopeVariable ==
    /\ \E id \in 1..(sm.state.scopeIdCounter + 1), nm \in {"x", "y"} :
          StoreOp(updateScopeVariable(Fresh(sm), id, nm, Num(2)))
    /\ UNCHANGED uid

StoreDestroyScope ==
    /\ \E id \in 1..(sm.state.scopeIdCounter + 1) : StoreOp(destroyScope(Fresh(sm), id))
    /\ UNCHANGED uid

StoreSetCurrentLine ==
    /\ \E line \in {1, 2} : StoreOp(setCurrentLine(Fresh(sm), line))
    /\ UNCHANGED uid

StoreIncrementStep == StoreOp(incrementStep(Fresh(sm))) /\ UNCHANGED uid

StoreSetExecutionState ==
    /\ \E running \in BOOLEAN, paused \in BOOLEAN :
          StoreOp(setExecutionState(Fresh(sm), running, paused))
    /\ UNCHANGED uid

StoreLogConsole == StoreOp(logConsole(Fresh(sm), "log", "x")) /\ UNCHANGED uid

StoreSetSpeed == StoreOp(setSpeed(Fresh(sm), 500)) /\ UNCHANGED uid

StoreSetCode == StoreOp(setCode(Fresh(sm), 1)) /\ UNCHANGED uid

StoreAddTimer == StoreOp(addTimer(Fresh(sm), uid + 1)) /\ uid' = uid + 1

MutationNext ==
    \/ StoreNext
    \/ StoreSubscribe \/ StoreUnsubscribe
    \/ StoreAddHeapReference
    \/ StoreCreateScope \/ StoreAddScopeVariable \/ StoreUpdateScopeVariable
    \/ StoreDestroyScope
    \/ StoreSetCurrentLine \/ StoreIncrementStep \/ StoreSetExecutionState
    \/ StoreLogConsole \/ StoreSetSpeed \/ StoreSetCode \/ StoreAddTimer

MutationSpec == MutationInit /\ [][MutationNext]_vars

\* a client takes a snapshot of the state, or writes into the one it holds
StoreGetState ==
    /\ budget > 0
    /\ budget' = budget - 1
    /\ sm' = Fresh(sm)
    /\ hist' = [hist EXCEPT !.snapshot = getState(sm)]
    /\ UNCHANGED <<execVars, threads, active, hostTimers, editor, uid>>

StoreModifySnapshot ==
    /\ budget > 0
    /\ budget' = budget - 1
    /\ hist.snapshot.held
    /\ LET snap == hist.snapshot
           m == Fresh(sm)
       IN \E w \in {writeSnapshotFrame(snap, m, i, "y", [value |-> "2", type |-> "number"]) :
                        i \in 1..Len(snap.view.callStack)}
                  \cup {writeSnapshotScope(snap, m, i, "y", [value |-> Num(2), type |-> "number",
                                                               declarationType |-> "var"]) :
                           i \in 1..Len(snap.view.scopes)}
                  \cup {writeSnapshotLine(snap, m, 7)} :
             /\ sm' = w.sm
             /\ hist' = [hist EXCEPT !.snapshot = w.snapshot, !.edits = @ + 1]
    /\ UNCHANGED <<execVars, threads, active, hostTimers, editor, uid>>

SnapshotInit ==
    /\ sm = NewStateManager(0, DefaultSpeed)
    /\ instructions = <<>> /\ currentIndex = 0
    /\ isRunning = FALSE /\ isPaused = FALSE /\ stepResolve = 0
    /\ pendingTimers = <<>> /\ pendingMicrotasks = <<>> /\ globalScope = 0
    /\ threads = <<>> /\ active = 0 /\ hostTimers = {}
    /\ uid = 0 /\ editor = 0 /\ budget = MaxSnapshotOps
    /\ hist = InitHist

SnapshotNext == MutationNext \/ StoreGetState \/ StoreModifySnapshot

SnapshotSpec == SnapshotInit /\ [][SnapshotNext]_vars

----------------------------------------------------------------------------
(* The programs in the editor *)

LogLine(text) == ConsoleLine("log", <<Lit(Str(text))>>)
LogRefLine(nm) == ConsoleLine("log", <<RefExpr(nm)>>)

Sources ==
    << \* log Start; a 1000 ms timer logging Timeout; a promise logging Promise; log End
       <<LogLine("Start"), TimeoutLine(<<LogLine("Timeout")>>, 1000),
         PromiseLine(<<LogLine("Promise")>>), LogLine("End")>>,
       \* one timer, then two promises
       <<TimeoutLine(<<LogLine("T")>>, 0), PromiseLine(<<LogLine("P1")>>),
         PromiseLine(<<LogLine("P2")>>)>>,
       \* two timers
       <<TimeoutLine(<<LogLine("A")>>, 0), TimeoutLine(<<LogLine("B")>>, 100)>>,
       \* a function of two statements, a call of it, and a statement after the call
       <<FunctionOpenLine("f", <<"a">>), LogLine("f1"), VarLine("let", "x", Lit(Num(1))),
         CloseLine, CallLine("f", <<Lit(Num(2))>>), LogLine("after")>>,
       \* hoisting: console.log(x); console.log(typeof g); var x = 5;
       \* function g() { console.log("Hello!"); } over three lines
       <<LogRefLine("x"), LogRefLine("typeof g"), VarLine("var", "x", Lit(Num(5))),
         FunctionOpenLine("g", <<>>), LogLine("Hello!"), CloseLine>>,
       \* closure: function f() { var x = 0; function g() { x = x + 1;
       \* console.log(x); } return g; } var y = f(); y(); y(); y();
       <<FunctionOpenLine("f", <<>>), VarLine("var", "x", Lit(Num(0))),
         FunctionOpenLine("g", <<>>), AssignLine("x", RefExpr("x + 1")), LogRefLine("x"),
         CloseLine, ReturnLine(RefExpr("g")), CloseLine,
         VarLine("var", "y", CallExpr("f", <<>>)),
         CallLine("y", <<>>), CallLine("y", <<>>), CallLine("y", <<>>)>>,
       \* scopes: let x = 1; let y = 1; function f(a) { let x = 2; console.log(x);
       \* console.log(y); console.log(z); x = 3; g(); }
       \* function g() { console.log(x); } f(7); console.log(x);
       <<VarLine("let", "x", Lit(Num(1))), VarLine("let", "y", Lit(Num(1))),
         FunctionOpenLine("f", <<"a">>), VarLine("let", "x", Lit(Num(2))), LogRefLine("x"),
         LogRefLine("y"), LogRefLine("z"), AssignLine("x", Lit(Num(3))), CallLine("g", <<>>),
         CloseLine,
         FunctionInline("g", <<>>, <<LogRefLine("x")>>),
         CallLine("f", <<Lit(Num(7))>>), LogRefLine("x")>>,
       \* a timer whose callback registers a promise, and a second timer:
       \* var x = 0; setTimeout(() => Promise.resolve().then(() => x = 1), 0);
       \* setTimeout(() => console.log(x), 0);
       <<VarLine("var", "x", Lit(Num(0))),
         TimeoutLine(<<PromiseLine(<<AssignLine("x", Lit(Num(1)))>>)>>, 0),
         TimeoutLine(<<LogRefLine("x")>>, 0)>>,
       \* a promise whose callback registers a promise, a second promise, a timer:
       \* var x = 0;
       \* Promise.resolve().then(function() { Promise.resolve().then(() => x = 2); });
       \* Promise.resolve().then(function() { console.log(x); });
       \* setTimeout(() => console.log("T"), 0);
       <<VarLine("var", "x", Lit(Num(0))),
         PromiseLine(<<PromiseLine(<<AssignLine("x", Lit(Num(2)))>>)>>),
         PromiseLine(<<LogRefLine("x")>>),
         TimeoutLine(<<LogLine("T")>>, 0)>>,
       \* a call of a function that is not declared: foo(); console.log("after");
       <<CallLine("foo", <<>>), LogLine("after")>>,
       \* an assignment to a name no scope binds: y = 5; console.log(y);
       <<AssignLine("y", Lit(Num(5))), LogRefLine("y")>>,
       \* a function declared inside a function and called there:
       \* function f() { function g() { console.log("in g"); } g(); } f();
       <<FunctionOpenLine("f", <<>>), FunctionOpenLine("g", <<>>), LogLine("in g"),
         CloseLine, CallLine("g", <<>>), CloseLine, CallLine("f", <<>>)>>
    >>

\* the programs of timers and promises, and the programs of scopes and calls
LoopPrograms == 1..4
ScopePrograms == 5..Len(Sources)

----------------------------------------------------------------------------
(* Executor: the invocations of run() and step() *)

(* An invocation is at pc, inside the instruction sequences of frames (the   *)
(* innermost last): k = "top" for the one instruction of a step(), "call"    *)
(* for a function body, "micro" and "cb" for a task body.  snapLen is the    *)
(* microtask queue length in the snapshot processEventLoop took on entry.    *)

NewThread(kind) ==
    [kind |-> kind, pc |-> "step", frames |-> <<>>, snapLen |-> 0, hasMore |-> FALSE]
\* an invocation that can never go on: its timer was cleared or its paused wait
\* lost its continuation
Ended == [kind |-> "", pc |-> "ended", frames |-> <<>>, snapLen |-> 0, hasMore |-> FALSE]
\* an invocation that has returned to its caller
Returned(kind) ==
    [kind |-> kind, pc |-> "returned", frames |-> <<>>, snapLen |-> 0, hasMore |-> FALSE]

Ctx(k, insts, scopeId, cont, line) ==
    [k |-> k, insts |-> insts, idx |-> 1, scopeId |-> scopeId, cont |-> cont, line |-> line]

WaitingPcs == {"pacing", "bodyDelay", "microDelay", "cbDelay"}

Init ==
    /\ sm = NewStateManager(0, DefaultSpeed)
    /\ instructions = <<>> /\ currentIndex = 0
    /\ isRunning = FALSE /\ isPaused = FALSE /\ stepResolve = 0
    /\ pendingTimers = <<>> /\ pendingMicrotasks = <<>> /\ globalScope = 0
    /\ threads = <<>> /\ active = 0 /\ hostTimers = {}
    /\ uid = 0 /\ budget = MaxCalls
    /\ editor \in LoopPrograms
    /\ hist = InitHist

Commit(w, h) ==
    /\ sm' = w.sm
    /\ pendingTimers' = w.pendingTimers
    /\ pendingMicrotasks' = w.pendingMicrotasks
    /\ hostTimers' = w.hostTimers
    /\ uid' = w.uid
    /\ hist' = Observe(h, w.sm.notes)

Running(pc) == active # 0 /\ threads[active].pc = pc

\* what an invocation finds when it enters processEventLoop: the frames of
\* the call stack and the scopes of the scope list, in order; taken counts
\* the callback tasks the pass dequeues
PassEntry(t) ==
    [t |-> t, taken |-> 0,
     frames |-> [i \in 1..Len(sm.state.callStack) |-> sm.state.callStack[i].id],
     scopes |-> [i \in 1..Len(sm.state.scopes) |-> sm.state.scopes[i].id]]

\* the pass of invocation t has dequeued a callback task
Taken(h, t) ==
    [h EXCEPT !.passes = {IF p.t = t THEN [p EXCEPT !.taken = @ + 1] ELSE p : p \in @}]

\* a step() that turns to the event loop as soon as a callback task is queued
ThreadStep_LoopFirst ==
    /\ Running("step")
    /\ IF currentIndex >= Len(instructions) \/ sm.state.eventLoop.callbackQueue # <<>>
       THEN /\ threads' = [threads EXCEPT ![active].pc = "microLoop",
                              ![active].snapLen = Len(sm.state.eventLoop.microtaskQueue)]
            /\ Commit(World, [hist EXCEPT !.passes = @ \cup {PassEntry(active)}])
       ELSE LET instruction == instructions[currentIndex + 1]
                w == Store(World, incrementStep(setCurrentLine(World.sm, instruction.line)))
            IN /\ threads' = [threads EXCEPT ![active].pc = "exec",
                                 ![active].frames = <<Ctx("top", <<instruction>>, 0, NoInst, 0)>>]
               /\ Commit(w, [hist EXCEPT !.execTrace = Append(@, currentIndex)])
    /\ UNCHANGED <<instructions, currentIndex, isRunning, isPaused, stepResolve, globalScope,
                   active, editor, budget>>

\* step(), up to its call of processEventLoop or executeInstruction
ThreadStep ==
    /\ Running("step")
    /\ IF currentIndex >= Len(instructions)
       THEN /\ threads' = [threads EXCEPT ![active].pc = "microLoop",
                              ![active].snapLen = Len(sm.state.eventLoop.microtaskQueue)]
            /\ Commit(World, [hist EXCEPT !.passes = @ \cup {PassEntry(active)}])
       ELSE LET instruction == instructions[currentIndex + 1]
                w == Store(World, incrementStep(setCurrentLine(World.sm, instruction.line)))
            IN /\ threads' = [threads EXCEPT ![active].pc = "exec",
                                 ![active].frames = <<Ctx("top", <<instruction>>, 0, NoInst, 0)>>]
               /\ Commit(w, [hist EXCEPT !.execTrace = Append(@, currentIndex)])
    /\ UNCHANGED <<instructions, currentIndex, isRunning, isPaused, stepResolve, globalScope,
                   active, editor, budget>>

RECURSIVE bindParameters(_, _, _, _, _)
bindParameters(m, scopeId, params, args, i) ==
    IF i > Len(params) THEN m
    ELSE LET value == IF i <= Len(args) THEN args[i] ELSE Undefined
             m1 == addScopeVariable(m, scopeId, params[i], value, getValueType(value), "param")
             m2 == updateFrameVariable(m1, params[i], formatValue(value), getValueType(value))
         IN bindParameters(m2, scopeId, params, args, i + 1)

\* executeFunctionCall up to the first instruction of the body: the world
\* after it, and the frame of the body when the function was found
enterFunctionCall(w, insts, name, argExprs) ==
    LET func == findFunction(insts, name)
        Resolved(arg) == resolveValue(w.sm, arg)
        args == SeqMap(Resolved, argExprs)
        scopeId == createdScopeId(w.sm)
        m1 == createScope(w.sm, name, "function", getCurrentScopeId(w.sm))
        m2 == pushCallStack(m1, [name |-> name, type |-> "function",
                                 variables |-> NoFrameVariables], w.uid + 1)
        m3 == bindParameters(m2, scopeId, func.params, args, 1)
    IN IF func.type = "none"
       THEN [found |-> FALSE,
             w |-> Store(w, logConsole(w.sm, "error",
                                       "ReferenceError: " \o name \o " is not defined"))]
       ELSE [found |-> TRUE,
             w |-> [w EXCEPT !.sm = m3, !.uid = @ + 1],
             insts |-> IF func.body # <<>> THEN parseBody(func.body) ELSE <<>>,
             scopeId |-> scopeId, line |-> func.line]

\* executeInstruction(instruction) for the instruction the innermost frame is at
ThreadExec ==
    /\ Running("exec")
    /\ LET th == threads[active]
           top == Last(th.frames)
           inst == top.insts[top.idx]
           isCall == inst.type = "functionCall"
           e == enterFunctionCall(World, instructions,
                                  IF isCall THEN inst.name ELSE inst.value.name,
                                  IF isCall THEN inst.args ELSE inst.value.args)
       IN IF CallsFunction(inst)
          THEN IF e.found
               THEN /\ threads' = [threads EXCEPT ![active].pc = "bodyLoop",
                          ![active].frames = Append(@, Ctx("call", e.insts, e.scopeId,
                                                     IF isCall THEN NoInst ELSE inst, e.line))]
                    /\ Commit(e.w, hist)
               ELSE /\ threads' = [threads EXCEPT ![active].pc = "instDone"]
                    /\ Commit(IF isCall THEN e.w ELSE executeInstruction(e.w, inst, Undefined),
                              hist)
          ELSE /\ threads' = [threads EXCEPT ![active].pc = "instDone"]
               /\ Commit(executeInstruction(World, inst, resolveValue(sm, inst.value)), hist)
    /\ UNCHANGED <<instructions, currentIndex, isRunning, isPaused, stepResolve, globalScope,
                   active, editor, budget>>

\* the loop over the instructions of a body: the next instruction, or what
\* follows the loop in executeFunctionCall (689-691) and processEventLoop
\* (802, 831-837)
ThreadBodyLoop ==
    /\ Running("bodyLoop")
    /\ LET th == threads[active]
           top == Last(th.frames)
           rest == Front(th.frames)
           bodyInst == top.insts[top.idx]
           left == Store(World, destroyScope(popCallStack(World.sm), top.scopeId))
       IN IF top.idx <= Len(top.insts)
          THEN /\ threads' = [threads EXCEPT ![active].pc = "exec"]
               /\ Commit(IF top.k = "call"
                         THEN Store(World, setCurrentLine(World.sm,
                                       IF bodyInst.line # 0 THEN bodyInst.line ELSE top.line))
                         ELSE World, hist)
          ELSE CASE top.k = "call" ->
                      /\ threads' = [threads EXCEPT ![active].pc = "instDone",
                                                    ![active].frames = rest]
                      /\ Commit(IF top.cont.type = "none" THEN left
                                ELSE executeInstruction(left, top.cont, Undefined), hist)
                 [] top.k = "micro" ->
                      /\ threads' = [threads EXCEPT ![active].pc = "microLoop",
                                                    ![active].frames = rest]
                      /\ Commit([World EXCEPT !.pendingMicrotasks =
                                                 IF @ = <<>> THEN @ ELSE Tail(@)], hist)
                 [] OTHER ->
                      /\ threads' = [threads EXCEPT ![active].pc = "stepRet",
                                                    ![active].frames = rest,
                                                    ![active].hasMore = FALSE]
                      /\ Commit([left EXCEPT !.pendingTimers =
                                                 IF @ = <<>> THEN @ ELSE Tail(@)], hist)
    /\ UNCHANGED <<instructions, currentIndex, isRunning, isPaused, stepResolve, globalScope,
                   active, editor, budget>>

\* after executeInstruction: step() moves the cursor and returns (491-493);
\* inside a body the invocation waits for delay() (685, 799, 828)
ThreadInstDone ==
    /\ Running("instDone")
    /\ LET th == threads[active]
           top == Last(th.frames)
       IN IF top.k = "top"
          THEN /\ currentIndex' = currentIndex + 1
               /\ threads' = [threads EXCEPT ![active].pc = "stepRet",
                     ![active].frames = <<>>,
                     ![active].hasMore = (currentIndex + 1 < Len(instructions)
                                          \/ hasPendingTasks(World))]
               /\ Commit(World, hist)
               /\ active' = active
          ELSE /\ threads' = [threads EXCEPT ![active].pc = "bodyDelay"]
               /\ Commit(delay(World, active), hist)
               /\ active' = 0
               /\ UNCHANGED currentIndex
    /\ UNCHANGED <<instructions, isRunning, isPaused, stepResolve, globalScope, editor, budget>>

\* processEventLoop, one evaluation of the while condition (789) and, when it
\* holds, the loop body up to delay() (790-793) or to the end (802)
ThreadMicroLoop ==
    /\ Running("microLoop")
    /\ LET th == threads[active]
           queue == sm.state.eventLoop.microtaskQueue
           task == Head(queue)
           m1 == processNextMicrotask(World.sm)
       IN IF th.snapLen > 0 \/ Len(pendingMicrotasks) > 0
          THEN IF Len(queue) > 0 /\ task.callback # <<>>
               THEN /\ threads' = [threads EXCEPT ![active].pc = "microDelay",
                          ![active].frames = <<Ctx("micro", parseBody(task.callback), 0,
                                                   NoInst, 0)>>]
                    /\ Commit(delay(Store(World, logConsole(m1, "info",
                                        "Executing microtask: " \o task.name)), active), hist)
                    /\ active' = 0
               ELSE /\ threads' = threads
                    /\ Commit([World EXCEPT !.sm = m1,
                                 !.pendingMicrotasks = IF @ = <<>> THEN @ ELSE Tail(@)], hist)
                    /\ active' = active
          ELSE /\ threads' = [threads EXCEPT ![active].pc = "callbackPart"]
               /\ Commit(World, hist)
               /\ active' = active
    /\ UNCHANGED <<instructions, currentIndex, isRunning, isPaused, stepResolve, globalScope,
                   editor, budget>>

\* processEventLoop, "Process one callback" (806-837) up to delay() (822)
ThreadCallbackPart ==
    /\ Running("callbackPart")
    /\ LET queue == sm.state.eventLoop.callbackQueue
           callback == Head(queue)
           m1 == processNextCallback(World.sm)
           scopeId == createdScopeId(m1)
           m2 == logConsole(m1, "info", "Executing callback: " \o callback.name)
           m3 == createScope(m2, "setTimeout callback", "function", globalScope)
           m4 == pushCallStack(m3, [name |-> "setTimeout callback", type |-> "function",
                                    variables |-> NoFrameVariables], uid + 1)
       IN IF Len(queue) > 0 \/ Len(pendingTimers) > 0
          THEN IF Len(queue) > 0 /\ callback.callback # <<>>
               THEN /\ threads' = [threads EXCEPT ![active].pc = "cbDelay",
                          ![active].frames = <<Ctx("cb", parseBody(callback.callback), scopeId,
                                                   NoInst, 0)>>]
                    /\ Commit(delay([World EXCEPT !.sm = m4, !.uid = @ + 1], active),
                              Taken(hist, active))
                    /\ active' = 0
               ELSE /\ threads' = [threads EXCEPT ![active].pc = "stepRet",
                                                  ![active].hasMore = FALSE]
                    /\ Commit([World EXCEPT !.sm = m1,
                                 !.pendingTimers = IF @ = <<>> THEN @ ELSE Tail(@)],
                              IF Len(queue) > 0 THEN Taken(hist, active) ELSE hist)
                    /\ active' = active
          ELSE /\ threads' = [threads EXCEPT ![active].pc = "stepRet",
                                             ![active].hasMore = FALSE]
               /\ Commit(World, hist)
               /\ active' = active
    /\ UNCHANGED <<instructions, currentIndex, isRunning, isPaused, stepResolve, globalScope,
                   editor, budget>>

\* the end of run() (1008-1010)
finishRun(w) ==
    Store(w, logConsole(setExecutionState(w.sm, FALSE, FALSE), "info", "Execution completed"))

\* an invocation left in the paused wait when stepResolve is overwritten can
\* never be released: it is dropped
Overwrite(ths, t) ==
    IF stepResolve # 0 /\ stepResolve # t /\ ths[stepResolve].pc = "pausedWait"
    THEN [ths EXCEPT ![stepResolve] = Ended] ELSE ths

\* step() has returned hasMore to run() (998-1005) or to singleStep() (1052-1061)
ThreadStepRet ==
    /\ Running("stepRet")
    /\ LET th == threads[active]
           left == [hist EXCEPT !.passes = {p \in @ : p.t # active}]
           reported == IF ~th.hasMore /\ hist.completed < 0
                       THEN [left EXCEPT !.completed = Len(threads)] ELSE left
       IN
       IF th.kind = "run"
       THEN IF th.hasMore /\ isRunning
            THEN IF isPaused
                 THEN /\ stepResolve' = active
                      /\ threads' = Overwrite([threads EXCEPT ![active].pc = "pausedWait"],
                                              active)
                      /\ Commit(World, reported)
                      /\ UNCHANGED <<isRunning, isPaused>>
                 ELSE /\ threads' = [threads EXCEPT ![active].pc = "pacing"]
                      /\ Commit(delay(World, active), reported)
                      /\ UNCHANGED <<isRunning, isPaused, stepResolve>>
            ELSE /\ isRunning' = FALSE
                 /\ threads' = [threads EXCEPT ![active] = Returned("run")]
                 /\ Commit(finishRun(World), reported)
                 /\ UNCHANGED <<isPaused, stepResolve>>
       ELSE IF th.hasMore
            THEN /\ threads' = [threads EXCEPT ![active] = Returned("step")]
                 /\ Commit(World, reported)
                 /\ UNCHANGED <<isRunning, isPaused, stepResolve>>
            ELSE /\ isRunning' = FALSE /\ isPaused' = FALSE
                 /\ threads' = [threads EXCEPT ![active] = Returned("step")]
                 /\ Commit(finishRun(World), reported)
                 /\ UNCHANGED stepResolve
    /\ active' = 0
    /\ UNCHANGED <<instructions, currentIndex, globalScope, editor, budget>>

----------------------------------------------------------------------------
(* The host's timers *)

\* A timer set earlier (handles grow with time) for no more milliseconds
\* fires first.
Due(timer) ==
    /\ timer \in hostTimers
    /\ \A other \in hostTimers : other.id < timer.id => other.ms > timer.ms

\* the timer of a delay() fires: the invocation waiting for it goes on
TimerDelay ==
    /\ active = 0
    /\ \E timer \in hostTimers :
         /\ Due(timer)
         /\ timer.kind = "delay"
         /\ LET t == timer.thread
                th == threads[t]
                n == Len(th.frames)
            IN threads' = [threads EXCEPT ![t] =
                  CASE th.pc = "pacing" -> [th EXCEPT !.pc = "step"]
                    [] th.pc = "bodyDelay" -> [th EXCEPT !.pc = "bodyLoop", !.frames[n].idx = @ + 1]
                    [] OTHER -> [th EXCEPT !.pc = "bodyLoop"]]
         /\ active' = timer.thread
         /\ Commit([World EXCEPT !.hostTimers = @ \ {timer}], hist)
    /\ UNCHANGED <<ctlVars, editor, budget>>

\* the timer of executeSetTimeout fires (734-736)
TimerMigrate ==
    /\ active = 0
    /\ \E timer \in hostTimers :
         /\ Due(timer)
         /\ timer.kind = "migrate"
         /\ Commit([World EXCEPT !.hostTimers = @ \ {timer},
                                 !.sm = moveToCallbackQueue(@, timer.task)], hist)
    /\ UNCHANGED <<instructions, currentIndex, isRunning, isPaused, stepResolve, globalScope,
                   threads, active, editor, budget>>

----------------------------------------------------------------------------
(* The control interface *)

Call(name) ==
    /\ active = 0
    /\ budget > 0
    /\ budget' = budget - 1
    /\ UNCHANGED editor

\* the call is recorded; overlap tells whether a run() or step() was ever
\* called while an earlier invocation had not returned
Called(h, name) ==
    LET live == {t \in DOMAIN threads : threads[t].pc \notin {"returned", "ended"}}
    IN [h EXCEPT !.calls = Append(@, name),
                 !.overlap = @ \/ (name \in {"run", "step"} /\ live # {})]

\* the controller loads the editor's text: setCode, parse, setParsedCode and
\* Executor.init (part_000 207-212, part_001 458-474)
CallInit ==
    /\ Call("init")
    /\ LET parsed == parse(Sources[editor])
           m1 == setParsedCode(setCode(World.sm, editor), parsed)
           m2 == createScope(m1, "Global", "global", 0)
           m3 == pushCallStack(m2, [name |-> "Global Execution Context", type |-> "global",
                                    variables |-> NoFrameVariables], uid + 1)
       IN /\ instructions' = parsed
          /\ currentIndex' = 0
          /\ globalScope' = createdScopeId(m1)
          /\ Commit([World EXCEPT !.sm = m3, !.uid = @ + 1, !.pendingTimers = <<>>,
                                  !.pendingMicrotasks = <<>>],
                    [Called(hist, "init") EXCEPT !.execTrace = <<>>, !.completed = -1])
    /\ UNCHANGED <<isRunning, isPaused, stepResolve, threads, active>>

\* run(), up to its first call of step() (994-998)
CallRun ==
    /\ Call("run")
    /\ isRunning' = TRUE /\ isPaused' = FALSE
    /\ threads' = Append(threads, NewThread("run"))
    /\ active' = Len(threads) + 1
    /\ Commit(Store(World, setExecutionState(World.sm, TRUE, FALSE)), Called(hist, "run"))
    /\ UNCHANGED <<instructions, currentIndex, stepResolve, globalScope>>

\* singleStep(), up to its call of step() (1046-1052)
CallStep ==
    /\ Call("step")
    /\ IF ~isRunning
       THEN /\ isRunning' = TRUE /\ isPaused' = TRUE
            /\ Commit(Store(World, setExecutionState(World.sm, TRUE, TRUE)),
                      Called(hist, "step"))
       ELSE /\ UNCHANGED <<isRunning, isPaused>>
            /\ Commit(World, Called(hist, "step"))
    /\ threads' = Append(threads, NewThread("step"))
    /\ active' = Len(threads) + 1
    /\ UNCHANGED <<instructions, currentIndex, stepResolve, globalScope>>

CallPause ==
    /\ Call("pause")
    /\ isPaused' = TRUE
    /\ Commit(Store(World, setExecutionState(World.sm, TRUE, TRUE)), Called(hist, "pause"))
    /\ UNCHANGED <<instructions, currentIndex, isRunning, stepResolve, globalScope, threads,
                   active>>

\* resume() (1024-1031); the run() it releases finds isPaused false and goes
\* on to its delay() (1001-1005)
CallResume ==
    /\ Call("resume")
    /\ isPaused' = FALSE
    /\ stepResolve' = 0
    /\ LET w == Store(World, setExecutionState(World.sm, TRUE, FALSE)) IN
       IF stepResolve # 0
       THEN /\ threads' = [threads EXCEPT ![stepResolve].pc = "pacing"]
            /\ Commit(delay(w, stepResolve), Called(hist, "resume"))
       ELSE /\ threads' = threads
            /\ Commit(w, Called(hist, "resume"))
    /\ UNCHANGED <<instructions, currentIndex, isRunning, globalScope, active>>

stop(w) == Store(w, setExecutionState(w.sm, FALSE, FALSE))

CallStop ==
    /\ Call("stop")
    /\ isRunning' = FALSE /\ isPaused' = FALSE
    /\ Commit(stop(World), Called(hist, "stop"))
    /\ UNCHANGED <<instructions, currentIndex, stepResolve, globalScope, threads, active>>

\* the timers StateManager.reset() clears (382): an invocation waiting for
\* one of them never goes on
CancelTracked(timers, tracked) == {timer \in timers : timer.id \notin tracked}

Cancelled(ths, timers, tracked) ==
    [t \in DOMAIN ths |->
        IF \E timer \in timers : timer.kind = "delay" /\ timer.thread = t /\ timer.id \in tracked
        THEN Ended ELSE ths[t]]

\* Executor.reset() (1067-1074)
CallReset ==
    /\ Call("reset")
    /\ isRunning' = FALSE /\ isPaused' = FALSE
    /\ currentIndex' = 0
    /\ threads' = Cancelled(threads, hostTimers, sm.state.timers)
    /\ LET w == stop(World)
       IN Commit([w EXCEPT !.pendingTimers = <<>>, !.pendingMicrotasks = <<>>,
                           !.hostTimers = CancelTracked(@, sm.state.timers),
                           !.sm = reset(@)],
                 [Called(hist, "reset") EXCEPT !.completed = -1, !.stale = @ \cup
                     {t \in DOMAIN threads :
                        Cancelled(threads, hostTimers, sm.state.timers)[t].pc
                           \notin {"ended", "returned"}},
                     !.dropped = @ \cup
                        {sm.state.eventLoop.webAPIs[i].id :
                            i \in 1..Len(sm.state.eventLoop.webAPIs)} \cup
                        {sm.state.eventLoop.callbackQueue[i].id :
                            i \in 1..Len(sm.state.eventLoop.callbackQueue)}])
    /\ UNCHANGED <<instructions, stepResolve, globalScope, active>>

ThreadNext ==
    \/ ThreadStep \/ ThreadExec \/ ThreadBodyLoop \/ ThreadInstDone
    \/ ThreadMicroLoop \/ ThreadCallbackPart \/ ThreadStepRet

HostNext == ThreadNext \/ TimerDelay \/ TimerMigrate

CallNext ==
    \/ CallInit \/ CallRun \/ CallStep \/ CallPause \/ CallResume \/ CallStop \/ CallReset

Next == HostNext \/ CallNext

Spec == Init /\ [][Next]_vars

\* the host runs a ready continuation and fires a due timer
FairSpec == Spec /\ WF_vars(HostNext)

\* longer sequences of control calls on the program of two timers
DeepInit ==
    /\ sm = NewStateManager(0, DefaultSpeed)
    /\ instructions = <<>> /\ currentIndex = 0
    /\ isRunning = FALSE /\ isPaused = FALSE /\ stepResolve = 0
    /\ pendingTimers = <<>> /\ pendingMicrotasks = <<>> /\ globalScope = 0
    /\ threads = <<>> /\ active = 0 /\ hostTimers = {}
    /\ uid = 0 /\ budget = MaxDeepCalls
    /\ editor = 3
    /\ hist = InitHist

DeepSpec == DeepInit /\ [][Next]_vars

\* the programs of scopes and calls under init(), run() and step()
ProgramInit ==
    /\ sm = NewStateManager(0, DefaultSpeed)
    /\ instructions = <<>> /\ currentIndex = 0
    /\ isRunning = FALSE /\ isPaused = FALSE /\ stepResolve = 0
    /\ pendingTimers = <<>> /\ pendingMicrotasks = <<>> /\ globalScope = 0
    /\ threads = <<>> /\ active = 0 /\ hostTimers = {}
    /\ uid = 0 /\ budget = MaxProgramCalls
    /\ editor \in ScopePrograms
    /\ hist = InitHist

ProgramNext == HostNext \/ CallInit \/ CallRun \/ CallStep

ProgramSpec == ProgramInit /\ [][ProgramNext]_vars

----------------------------------------------------------------------------
(* The parser alone: a source text is translated once *)

\* the lines a text is made of: function declarations on one line and over
\* several, var with and without initialiser, let, a statement, an empty line
SourceLines ==
    {FunctionInline("f", <<>>, <<LogLine("f")>>), FunctionOpenLine("g", <<"a">>), CloseLine,
     VarLine("var", "x", Lit(Num(1))), VarNoInitLine("var", "a"),
     VarLine("let", "y", Lit(Num(2))), LogLine("s"), BlankLine}

Texts == UNION {[1..n -> SourceLines] : n \in 0..MaxLines}

\* what parse() hands to processHoisting for the text
Recognised(code) == ParseLines(code, 1, <<>>, NoInst, <<>>, 0)

ParseInit ==
    /\ sm = NewStateManager(0, DefaultSpeed)
    /\ instructions = <<>> /\ currentIndex = 0
    /\ isRunning = FALSE /\ isPaused = FALSE /\ stepResolve = 0
    /\ pendingTimers = <<>> /\ pendingMicrotasks = <<>> /\ globalScope = 0
    /\ threads = <<>> /\ active = 0 /\ hostTimers = {}
    /\ uid = 0 /\ budget = 1
    /\ editor \in Texts
    /\ hist = InitHist

\* Parser.parse(code) for the editor's text
Translate ==
    /\ budget > 0
    /\ budget' = budget - 1
    /\ instructions' = parse(editor)
    /\ hist' = Called(hist, "parse")
    /\ UNCHANGED <<sm, currentIndex, isRunning, isPaused, stepResolve, pendingTimers,
                   pendingMicrotasks, globalScope, threads, active, hostTimers, uid, editor>>

ParseNext == Translate

ParseSpec == ParseInit /\ [][ParseNext]_vars

----------------------------------------------------------------------------
(* The claims about run() and step() *)

\* the controller has loaded the program once and called run() once, and
\* nothing else
OnlyRun == hist.calls = <<"init", "run">>

\* how often the control operation was called
Calls(name) == Cardinality({i \in 1..Len(hist.calls) : hist.calls[i] = name})

\* the controller loaded the program first, and once
OneSequence == hist.calls # <<>> /\ hist.calls[1] = "init" /\ Calls("init") = 1

\* the host has no continuation to run and no timer to fire that changes
\* anything
NoHostProgress == ~ENABLED <<HostNext>>_vars

\* the texts of the console entries the program wrote, in order
ProgramLog ==
    LET IsLog(e) == e.type = "log"
        logs == SelectSeq(hist.console, IsLog)
    IN [i \in 1..Len(logs) |-> logs[i].text]

Logged(text) == formatValue(Str(text))

IsPrefix(s, t) == Len(s) <= Len(t) /\ \A i \in 1..Len(s) : s[i] = t[i]

\* an invocation is inside a top-level instruction: step() has called
\* executeInstruction and not yet moved the cursor
InInstruction(t) == threads[t].frames # <<>> /\ threads[t].frames[1].k = "top"

\* no store queue holds a task
QueuesEmpty ==
    /\ sm.state.eventLoop.webAPIs = <<>>
    /\ sm.state.eventLoop.callbackQueue = <<>>
    /\ sm.state.eventLoop.microtaskQueue = <<>>

(* C1: for the program that registers one timer and then two Promise.then    *)
(* callbacks, the console entries of both deferred callbacks precede the     *)
(* entry of the timer callback, whenever the timer task migrates: the        *)
(* program's entries are always a prefix of P1, P2, T, and when the host has *)
(* nothing left to do for a run() all three are there.                       *)
C1_MicrotasksBeforeCallback ==
    LET expected == <<Logged("P1"), Logged("P2"), Logged("T")>>
    IN (editor = 2 /\ OnlyRun) =>
          /\ IsPrefix(ProgramLog, expected)
          /\ NoHostProgress => ProgramLog = expected

(* C2: under run(), the program log Start; 1000 ms timer logging Timeout;    *)
(* Promise.then logging Promise; log End ends with exactly the four entries  *)
(* Start, End, Promise, Timeout: its entries are always a prefix of these,   *)
(* and a run() that has returned has written all four.                       *)
C2_StartEndPromiseTimeout ==
    LET expected == <<Logged("Start"), Logged("End"), Logged("Promise"), Logged("Timeout")>>
    IN (editor = 1 /\ OnlyRun) =>
          /\ IsPrefix(ProgramLog, expected)
          /\ (NoHostProgress \/ \E t \in DOMAIN threads : threads[t] = Returned("run"))
                => ProgramLog = expected

(* C3: when run() has returned and neither reset() nor stop() (nor a step()  *)
(* or second run() that could add work) was called, the pending-timer queue, *)
(* the callback queue and the microtask queue are empty.                     *)
C3_RunLeavesNoWork ==
    (/\ OneSequence /\ Calls("run") = 1
     /\ Calls("reset") = 0 /\ Calls("stop") = 0 /\ Calls("step") = 0
     /\ \E t \in DOMAIN threads : threads[t] = Returned("run"))
       => QueuesEmpty /\ pendingTimers = <<>> /\ pendingMicrotasks = <<>>

(* C4: the value step() returns is true exactly when the cursor is before    *)
(* the end of the instruction sequence or one of the three queues is         *)
(* non-empty, also for a step that made an event-loop pass.                  *)
C4_StepReportsRemainingWork ==
    \A t \in DOMAIN threads :
        threads[t].pc = "stepRet" =>
            (threads[t].hasMore <=> (currentIndex < Len(instructions) \/ ~QueuesEmpty))

(* C5: for a program without function calls whose task bodies register       *)
(* nothing, run() reaches completed: while run() has not returned the host   *)
(* always has a step that changes something (each pass of the event loop     *)
(* ends, also when the microtask queue is non-empty on entry), and when it   *)
(* has returned the flags are not running and not paused.                    *)
C5_RunReachesCompleted ==
    (editor \in {1, 2, 3} /\ OnlyRun) =>
        \A t \in DOMAIN threads :
            /\ threads[t].pc # "returned" => ~NoHostProgress
            /\ threads[t].pc = "returned" =>
                  /\ ~isRunning /\ ~isPaused
                  /\ ~sm.state.isRunning /\ ~sm.state.isPaused

(* C6: a step() runs to completion without yielding, the body of a function  *)
(* it calls included: whenever another event can take effect (no invocation  *)
(* is running), no invocation is inside a top-level instruction.             *)
C6_StepDoesNotYield ==
    active = 0 => \A t \in DOMAIN threads : ~InInstruction(t)

(* C7: under any interleaving of run(), step(), pause() and resume() on one  *)
(* initialised instruction sequence, the top-level instructions are executed *)
(* once each and in sequence order: the cursor values whose instruction was  *)
(* started are 0, 1, 2, ... without a repetition or a gap.                   *)
C7_EachInstructionOnceInOrder ==
    (OneSequence /\ Calls("reset") = 0 /\ Calls("stop") = 0) =>
        \A i \in 1..Len(hist.execTrace) : hist.execTrace[i] = i - 1

----------------------------------------------------------------------------
(* The claims about reset, pause and completion *)

\* the operation that led to this state was StateManager.reset()
JustReset == sm.notes # <<>> /\ sm.notes[1].event = "callStack" /\ sm.notes[1].action = "reset"

(* C11: reset() leaves the Store cleared and idle (call stack, heap, scope  *)
(* list and the three queues empty, current line -1, step counter 0, both   *)
(* flags false, no tracked timer) and leaves the stored code, the pacing    *)
(* speed and the subscribers as they were.                                  *)
C11_ResetClearsStore ==
    [][JustReset' =>
          /\ sm'.state.callStack = <<>> /\ sm'.state.heap = {} /\ sm'.state.scopes = <<>>
          /\ QueuesEmpty'
          /\ sm'.state.currentLine = -1 /\ sm'.state.currentStep = 0
          /\ ~sm'.state.isRunning /\ ~sm'.state.isPaused
          /\ sm'.state.timers = {}
          /\ sm'.state.code = sm.state.code
          /\ sm'.state.speed = sm.state.speed
          /\ sm'.subscribers = sm.subscribers]_vars

\* a reset of a Store whose speed was changed and that has a catch-all handler
C11_Witness ==
    /\ JustReset
    /\ sm.state.speed # DefaultSpeed
    /\ sm.subscribers["all"] # <<>>

(* C12: an invocation of run() or step() that began before a reset() never *)
(* executes an instruction or makes an event-loop pass after it, whatever    *)
(* is called afterwards: it stays in its wait or has ended, and never gets  *)
(* into an instruction or a pass.                                            *)
C12_ResetStopsInvocations ==
    \A t \in hist.stale :
        threads[t].pc \in {"pausedWait", "pacing", "step", "ended", "returned"}

\* the latest control call was pause()
PauseInForce == hist.calls # <<>> /\ Last(hist.calls) = "pause" /\ isPaused

(* C13: once pause() has been called during a run, run() starts no further  *)
(* top-level instruction and no event-loop pass until resume() is called:   *)
(* no invocation of run() leaves the head of step() while the pause is in   *)
(* force.                                                                    *)
C13_RunHonorsPause ==
    [][\A t \in DOMAIN threads :
          (/\ threads[t].kind = "run" /\ threads[t].pc = "step"
           /\ t \in DOMAIN threads' /\ threads'[t].pc \in {"exec", "microLoop"})
             => ~PauseInForce]_vars

(* C14: pause() does not cancel timer migrations and nothing runs a timer   *)
(* callback while paused: while the pause is in force every task in the     *)
(* pending-timer queue still has its host timer, and no step dequeues a     *)
(* task from the callback queue to execute its body.                        *)
C14_PauseKeepsTimersNotCallbacks ==
    /\ [](PauseInForce =>
             \A i \in 1..Len(sm.state.eventLoop.webAPIs) :
                 \E timer \in hostTimers :
                     timer.kind = "migrate" /\ timer.task = sm.state.eventLoop.webAPIs[i].id)
    /\ [][PauseInForce =>
             \A i \in 1..Len(sm'.notes) : sm'.notes[i].action # "processCallback"]_vars

(* C15: completed is terminal: once step() has reported no more work in a   *)
(* session loaded once and never reset, an invocation of step() or run()    *)
(* begun after that report starts no instruction and leaves the call stack, *)
(* the heap, the scope list and the three queues as they are.               *)
C15_CompletedIsTerminal ==
    [][LET actor == IF active # 0 THEN active ELSE active'
       IN (/\ OneSequence /\ Calls("reset") = 0
           /\ hist.completed >= 0 /\ hist'.completed = hist.completed
           /\ actor > hist.completed)
            => /\ sm'.state.callStack = sm.state.callStack
               /\ sm'.state.heap = sm.state.heap
               /\ sm'.state.scopes = sm.state.scopes
               /\ sm'.state.eventLoop = sm.state.eventLoop
               /\ hist'.execTrace = hist.execTrace]_vars

(* C16: right after init() the cursor is 0, the top frame of the call stack *)
(* is the active frame of type global and the last scope is of type global  *)
(* with no parent; when that init() is the call after a reset(), they are   *)
(* the only frame and the only scope.                                       *)
C16_InitEstablishesGlobals ==
    [][hist'.calls = Append(hist.calls, "init") =>
          LET cs == sm'.state.callStack
              sc == sm'.state.scopes
          IN /\ currentIndex' = 0
             /\ cs # <<>> /\ Last(cs).isActive /\ Last(cs).type = "global"
             /\ sc # <<>> /\ Last(sc).type = "global" /\ Last(sc).parentId = 0
             /\ (hist.calls # <<>> /\ Last(hist.calls) = "reset")
                   => (Len(cs) = 1 /\ Len(sc) = 1)]_vars

\* a program was loaded and stepped, the controller was reset and the
\* program loaded again
C16_Witness ==
    /\ hist.calls = <<"init", "step", "reset", "init">>
    /\ hist.execTrace = <<>>
    /\ Len(sm.state.callStack) = 1 /\ Len(sm.state.scopes) = 1

(* C17: a Store mutation that changes the call stack, the heap, the scopes, *)
(* a queue, the current line, the step counter or the execution flags       *)
(* notifies, within the same operation, every handler subscribed to the     *)
(* topic of what it changed and every handler subscribed to the catch-all   *)
(* topic.                                                                   *)
C17_MutationsNotify ==
    [][LET handlers(topic) == sm.subscribers[topic] \o sm.subscribers["all"]
           told(topic) ==
               handlers(topic) # <<>> =>
                   \E i \in 1..Len(sm'.notes) :
                       sm'.notes[i].event = topic /\ sm'.notes[i].to = handlers(topic)
           toldAny ==
               sm.subscribers["all"] # <<>> =>
                   \E i \in 1..Len(sm'.notes) :
                       \A j \in 1..Len(sm.subscribers["all"]) :
                           \E k \in 1..Len(sm'.notes[i].to) :
                               sm'.notes[i].to[k] = sm.subscribers["all"][j]
       IN /\ sm'.state.callStack # sm.state.callStack => told("callStack")
          /\ sm'.state.heap # sm.state.heap => told("heap")
          /\ sm'.state.scopes # sm.state.scopes => told("scopes")
          /\ sm'.state.eventLoop # sm.state.eventLoop => told("eventLoop")
          /\ sm'.state.currentLine # sm.state.currentLine => told("currentLine")
          /\ (sm'.state.isRunning # sm.state.isRunning
                \/ sm'.state.isPaused # sm.state.isPaused) => told("execution")
          /\ sm'.state.currentStep # sm.state.currentStep => toldAny]_vars

(* C18: the snapshot getState() returned is a deep, detached copy: what its  *)
(* holder reads in it stays the value it had when it was taken whatever the *)
(* Store does later, and a write of the holder into the snapshot, also into *)
(* the variables of a frame or a scope in it, leaves the Store's state as   *)
(* it is.                                                                   *)
C18_SnapshotIsDetached ==
    /\ [](hist.snapshot.held =>
             /\ hist.snapshot.view.callStack = hist.snapshot.taken.callStack
             /\ hist.snapshot.view.scopes = hist.snapshot.taken.scopes
             /\ hist.snapshot.view.heap = hist.snapshot.taken.heap
             /\ hist.snapshot.view.eventLoop = hist.snapshot.taken.eventLoop)
    /\ [][hist'.edits # hist.edits => sm'.state = sm.state]_vars

\* the editor's text has been translated
Translated == hist.calls = <<"parse">>

(* C19: for the instruction sequence the hoisting pass is given, the marker *)
(* lists, in order, the names of its function declarations and the names of *)
(* its var declarations (not let or const) and exists when there is one of  *)
(* either; in the output every function declaration and every hoisted-var   *)
(* placeholder comes before every instruction that is not hoisted.          *)
C19_HoistingListsAndOrder ==
    Translated =>
        LET given == Recognised(editor)
            out == instructions
            NameOf(x) == x.name
            functions == SeqMap(NameOf, SelectSeq(given, IsFunctionDeclaration))
            variables == SeqMap(NameOf, SelectSeq(given, IsVar))
            Hoisted(x) == x.type \in {"functionDeclaration", "hoistedVar"}
            Marker(x) == x.type = "hoistingPhase"
        IN /\ \A i \in 1..Len(out) :
                  Marker(out[i]) => out[i].functions = functions /\ out[i].vars = variables
           /\ (functions # <<>> \/ variables # <<>>) => \E i \in 1..Len(out) : Marker(out[i])
           /\ \A i, j \in 1..Len(out) :
                  (Hoisted(out[i]) /\ ~Hoisted(out[j]) /\ ~Marker(out[j])) => i < j

\* a text that begins with a let declaration and goes on with a var and a
\* function declaration: both are listed and moved before the let
C19_Witness ==
    /\ Translated
    /\ Len(editor) = 3 /\ editor[1] = VarLine("let", "y", Lit(Num(2)))
    /\ instructions[1].type = "hoistingPhase"
    /\ instructions[1].functions = <<"f">> /\ instructions[1].vars = <<"x">>

(* C20: the instruction sequence parse returns for a text with at least one *)
(* recognised statement begins with a hoisting marker, and no other marker  *)
(* occurs in it.                                                            *)
C20_BeginsWithOneMarker ==
    (Translated /\ instructions # <<>>) =>
        /\ instructions[1].type = "hoistingPhase"
        /\ \A i \in 2..Len(instructions) : instructions[i].type # "hoistingPhase"

----------------------------------------------------------------------------
(* C8: after any sequence of pushCallStack, popCallStack and                  *)
(* updateFrameVariable, a frame is active exactly when it is the top of the   *)
(* call stack: at most one frame is active, and a non-empty stack has one.    *)
C8_OnlyTopFrameActive ==
    LET cs == sm.state.callStack
    IN \A i \in 1..Len(cs) : cs[i].isActive <=> (i = Len(cs))

\* a pop has just uncovered a frame that has another one below it
C8_Witness ==
    /\ Len(sm.state.callStack) >= 2
    /\ sm.notes # <<>> /\ Last(sm.notes).action = "pop"

(* C9: a task is never in two queues nor twice in one; a task leaves the      *)
(* pending-timer queue only for the tail of the callback queue, and no task   *)
(* goes from the callback queue to the pending-timer queue, nor into the      *)
(* microtask queue from another queue, nor out of it into another queue.      *)
C9_InOneQueue ==
    LET W == sm.state.eventLoop.webAPIs
        C == sm.state.eventLoop.callbackQueue
        M == sm.state.eventLoop.microtaskQueue
    IN /\ Cardinality(QueueIds(W)) = Len(W)
       /\ Cardinality(QueueIds(C)) = Len(C)
       /\ Cardinality(QueueIds(M)) = Len(M)
       /\ QueueIds(W) \cap QueueIds(C) = {}
       /\ QueueIds(W) \cap QueueIds(M) = {}
       /\ QueueIds(C) \cap QueueIds(M) = {}

C9_MonotoneMove ==
    LET W == sm.state.eventLoop.webAPIs
        C == sm.state.eventLoop.callbackQueue
        M == sm.state.eventLoop.microtaskQueue
        W2 == sm'.state.eventLoop.webAPIs
        C2 == sm'.state.eventLoop.callbackQueue
        M2 == sm'.state.eventLoop.microtaskQueue
    IN /\ \A i \in 1..Len(W) :
            W[i].id \in QueueIds(C2) => /\ C2 = Append(C, W[i])
                                        /\ W[i].id \notin QueueIds(W2)
       /\ QueueIds(W) \cap QueueIds(M2) = {}
       /\ QueueIds(C) \cap (QueueIds(W2) \cup QueueIds(M2)) = {}
       /\ QueueIds(M) \cap (QueueIds(W2) \cup QueueIds(C2)) = {}

C9_TaskInExactlyOneQueue == [](C9_InOneQueue) /\ [][C9_MonotoneMove]_vars

\* a timer task has migrated while the other two queues hold tasks too
C9_Witness ==
    /\ sm.notes # <<>> /\ Last(sm.notes).action = "moveToCallback"
    /\ Len(sm.state.eventLoop.callbackQueue) >= 2
    /\ Len(sm.state.eventLoop.webAPIs) >= 1

(* C10: between two resets the identities returned by allocateHeap are        *)
(* strictly increasing in allocation order (hence pairwise distinct), and an  *)
(* identity that was deallocated is not returned by a later allocation.       *)
C10_HeapIdsIncrease ==
    LET L == hist.heapLog
    IN \A i, j \in 1..Len(L) :
          (i < j /\ L[j].op = "allocate") =>
              /\ L[i].op = "allocate" => L[i].id < L[j].id
              /\ L[i].op = "deallocate" => L[i].id # L[j].id

\* an allocation made after a deallocation, with an earlier allocation still live
C10_Witness ==
    LET L == hist.heapLog
    IN /\ Len(L) >= 4
       /\ L[Len(L)].op = "allocate"
       /\ \E i \in 1..Len(L) : L[i].op = "deallocate"
       /\ Cardinality(sm.state.heap) >= 2

----------------------------------------------------------------------------
(* The claims about scopes, calls and the event loop *)

\* the cursor value of the first top-level instruction of the type, -1 when
\* the sequence has none
FirstOf(type) ==
    LET hits == {i \in 1..Len(instructions) : instructions[i].type = type}
    IN IF hits = {} THEN -1 ELSE (CHOOSE i \in hits : \A j \in hits : i <= j) - 1

\* step() has started the top-level instruction at the cursor value
Started(cursor) == \E k \in 1..Len(hist.execTrace) : hist.execTrace[k] = cursor

\* the global scope, the first of the scope list after init()
GlobalBinding(name) == sm.state.scopes[1].variables[name]

\* what a console entry can show for typeof of a function
FunctionIndicators == {"function", "\"function\"", "[Function]", "[Function: g]"}

(* C21: for the program console.log(x); console.log(typeof g); var x = 5;    *)
(* function g declared last, the global scope binds g to a function and x    *)
(* (to undefined) before the first console instruction starts, the program's *)
(* console entries are undefined and then a function-type indicator, and     *)
(* both are there before the instruction that gives x the value 5 starts.    *)
C21_HoistedBeforeFirstStatement ==
    (editor = 5 /\ OneSequence /\ sm.state.scopes # <<>>) =>
        /\ Started(FirstOf("console")) =>
              /\ GlobalBinding("g").type = "function"
              /\ GlobalBinding("x").type # "unbound"
              /\ Len(ProgramLog) = 0 => GlobalBinding("x").value = Undefined
        /\ \E ind \in FunctionIndicators : IsPrefix(ProgramLog, <<"undefined", ind>>)
        /\ Started(FirstOf("variableDeclaration")) => Len(ProgramLog) = 2

\* run() has returned to the controller
RunReturned == \E t \in DOMAIN threads : threads[t] = Returned("run")

(* C22: for the closure program (f declares x = 0 and a nested function g     *)
(* that adds 1 to x and logs it, and returns g; y = f(); y(); y(); y();),     *)
(* when run() has returned the console entries of the console instruction    *)
(* are 1, 2, 3 in this order, and exactly one function object of the heap    *)
(* references the scope that was created for the call of f.                  *)
C22_ClosureCounts ==
    LET IsCount(text) == text \in {NumStr(1), NumStr(2), NumStr(3)}
        closures == {o \in sm.state.heap :
                        o.type = "function" /\ o.value.closure = globalScope + 1}
    IN (editor = 6 /\ OnlyRun /\ RunReturned) =>
          /\ SelectSeq(ProgramLog, IsCount) = <<NumStr(1), NumStr(2), NumStr(3)>>
          /\ Cardinality(closures) = 1

\* the instruction the running invocation is about to execute
AtInstruction ==
    LET top == Last(threads[active].frames) IN top.insts[top.idx]

\* the running invocation is about to execute console.log(name)
AtLogOf(name) ==
    /\ active # 0 /\ threads[active].pc = "exec"
    /\ AtInstruction.type = "console" /\ AtInstruction.method = "log"
    /\ AtInstruction.args = <<RefExpr(name)>>

\* the scope list searched from its last scope back to its first: the value
\* of the first binding met, undefined when the search passes the first scope
RECURSIVE SearchBackward(_, _, _)
SearchBackward(scopes, i, name) ==
    IF i = 0 THEN Undefined
    ELSE IF name \in DOMAIN scopes[i].variables /\ scopes[i].variables[name].type # "unbound"
         THEN scopes[i].variables[name].value
         ELSE SearchBackward(scopes, i - 1, name)

LookupNames == Names \cup {"z"}

\* the scopes program has written the entries of the three lookups inside f
InsideLookups == <<NumStr(2), NumStr(1), "undefined">>

(* C23: a variable lookup returns the value of the innermost scope that      *)
(* binds the name, the scope list being searched from its last scope         *)
(* backward: console.log(name) writes that value (undefined when no scope    *)
(* binds the name), and the scopes program logs, inside the call of f, 2 for *)
(* x bound in both scopes, 1 for y bound only in the global scope and        *)
(* undefined for z bound nowhere, then 3 for x inside the nested call of g   *)
(* and 1 for x after the calls.                                              *)
C23_LookupStep ==
    \A name \in LookupNames :
        (AtLogOf(name) /\ threads'[active].pc = "instDone") =>
            /\ Len(hist'.console) = Len(hist.console) + 1
            /\ Last(hist'.console) =
                  [type |-> "log",
                   text |-> formatValue(SearchBackward(sm.state.scopes,
                                                       Len(sm.state.scopes), name))]

C23_LookupInnermost ==
    /\ [][C23_LookupStep]_vars
    /\ []((editor = 7 /\ OnlyRun) =>
             IsPrefix(ProgramLog, InsideLookups \o <<NumStr(3), NumStr(1)>>))

\* inside the nested call of g (scopes global, f, g) the three lookups of f
\* are done and g is about to look up x, bound in f and in the global scope
C23_Witness ==
    /\ editor = 7 /\ OnlyRun /\ ProgramLog = InsideLookups
    /\ AtLogOf("x") /\ Len(sm.state.scopes) = 3

\* the running invocation is about to execute a function-call instruction
\* whose name no top-level function declaration carries
AtUndeclaredCall ==
    /\ active # 0 /\ threads[active].pc = "exec"
    /\ AtInstruction.type = "functionCall"
    /\ \A i \in 1..Len(instructions) :
          ~(instructions[i].type = "functionDeclaration"
            /\ instructions[i].name = AtInstruction.name)

\* the console entries of type error
ErrorLog ==
    LET IsError(e) == e.type = "error" IN SelectSeq(hist.console, IsError)

(* C24: a function-call instruction that names an undeclared function emits  *)
(* exactly one console entry, of type error, and changes nothing else: the   *)
(* call stack, the scope list, the heap and the three queues stay as they    *)
(* were and the invocation's frames are the same; execution goes on with the *)
(* next instruction: under run() the program foo(); console.log("after")     *)
(* ends with one error entry and the entry after.                            *)
C24_UndeclaredCallStep ==
    AtUndeclaredCall =>
        /\ Len(hist'.console) = Len(hist.console) + 1
        /\ Last(hist'.console).type = "error"
        /\ sm'.state.callStack = sm.state.callStack
        /\ sm'.state.scopes = sm.state.scopes
        /\ sm'.state.heap = sm.state.heap
        /\ sm'.state.eventLoop = sm.state.eventLoop
        /\ pendingTimers' = pendingTimers /\ pendingMicrotasks' = pendingMicrotasks
        /\ threads'[active].frames = threads[active].frames
        /\ threads'[active].pc = "instDone"

C24_UndeclaredCallIsOneError ==
    /\ [][C24_UndeclaredCallStep]_vars
    /\ []((editor = 10 /\ OnlyRun /\ RunReturned) =>
             /\ Len(ErrorLog) = 1
             /\ ProgramLog = <<Logged("after")>>
             /\ sm.state.heap = {} /\ Len(sm.state.scopes) = 1)

\* the undeclared call has written its error and the run has gone on to the
\* next instruction and returned
C24_Witness ==
    /\ editor = 10 /\ OnlyRun /\ RunReturned
    /\ Len(ErrorLog) = 1 /\ ProgramLog = <<Logged("after")>>

\* the identities of the frames of the call stack and of the scopes of the
\* scope list, in order
StackNow == [i \in 1..Len(sm.state.callStack) |-> sm.state.callStack[i].id]
ScopesNow == [i \in 1..Len(sm.state.scopes) |-> sm.state.scopes[i].id]

\* the invocation has finished a pass of the event loop and step() is about
\* to return
PassDone(p) == threads[p.t].pc = "stepRet"

(* C25: one pass of the event loop dequeues and interprets at most one task  *)
(* of the callback queue, and only when the microtask queue is empty; the    *)
(* scope and the frame it creates for the body are removed again: after the  *)
(* pass the call stack and the scope list hold the frames and scopes they    *)
(* held when the pass began, in the same order.                              *)
C25_OneBracketedCallback ==
    (OneSequence /\ Calls("reset") = 0 /\ Calls("stop") = 0) =>
        /\ \A p \in hist.passes :
              /\ p.taken <= 1
              /\ PassDone(p) => StackNow = p.frames /\ ScopesNow = p.scopes
        /\ \A t \in DOMAIN threads :
              (threads[t].pc = "callbackPart" /\ sm.state.eventLoop.callbackQueue # <<>>)
                 => sm.state.eventLoop.microtaskQueue = <<>>

\* the notices processEventLoop writes when it dequeues a task, in order
CallbackNotice == "Executing callback: setTimeout"
MicrotaskNotice == "Executing microtask: Promise.then"
TaskNotices ==
    LET IsNotice(e) == e.type = "info" /\ e.text \in {CallbackNotice, MicrotaskNotice}
        notices == SelectSeq(hist.console, IsNotice)
    IN [i \in 1..Len(notices) |-> notices[i].text]

(* C26: microtasks enqueued by the body of a callback task are drained before *)
(* the next callback task runs.  For the program var x = 0; a 0 ms timer A    *)
(* whose body registers the Promise.then callback M: x = 1; a 0 ms timer B    *)
(* whose body logs x: under run() the tasks are dequeued in the order A, M,   *)
(* B, so that B logs 1, and when run() has returned all three bodies have     *)
(* been executed.                                                             *)
C26_CallbackMicrotasksFirst ==
    LET order == <<CallbackNotice, MicrotaskNotice, CallbackNotice>>
    IN (editor = 8 /\ OnlyRun) =>
          /\ IsPrefix(TaskNotices, order)
          /\ IsPrefix(ProgramLog, <<NumStr(1)>>)
          /\ RunReturned => (TaskNotices = order /\ ProgramLog = <<NumStr(1)>>)

\* the invocations that are inside the body of a microtask
InMicrotaskBody ==
    {t \in DOMAIN threads : threads[t].frames # <<>> /\ threads[t].frames[1].k = "micro"}

(* C27: within a pass the microtasks are executed in the order they were     *)
(* enqueued, each body once and finished before the next microtask is        *)
(* dequeued, and a microtask enqueued by a microtask's body runs in the same *)
(* pass, before any callback task.  For the program var x = 0; M1 registers  *)
(* M3: x = 2; M2 logs x; a 0 ms timer logs T: the tasks are dequeued in the  *)
(* order M1, M2, M3, timer, so that M2 logs 0 before the timer logs T, and   *)
(* never are two microtask bodies in progress at once.                       *)
C27_MicrotasksFifoToCompletion ==
    LET order == <<MicrotaskNotice, MicrotaskNotice, MicrotaskNotice, CallbackNotice>>
    IN (OneSequence /\ Calls("reset") = 0 /\ Calls("stop") = 0) =>
          /\ Cardinality(InMicrotaskBody) <= 1
          /\ editor = 9 =>
                /\ IsPrefix(TaskNotices, order)
                /\ IsPrefix(ProgramLog, <<NumStr(0), Logged("T")>>)

\* the invocations that are inside the body of a microtask or of a callback task
InTaskBody ==
    {t \in DOMAIN threads :
        threads[t].frames # <<>> /\ threads[t].frames[1].k \in {"micro", "cb"}}

(* C28: no body of a microtask or of a callback task is executed while the   *)
(* cursor is before the end of the top-level instruction sequence of the     *)
(* initialised program, also when a 0 ms timer has migrated to the callback  *)
(* queue while top-level instructions remain: no task is dequeued and no     *)
(* invocation is inside a task body as long as the cursor is before the end. *)
C28_TasksAfterTopLevel ==
    (OneSequence /\ Calls("reset") = 0) =>
        (currentIndex < Len(instructions) => (InTaskBody = {} /\ TaskNotices = <<>>))

\* the 0 ms timer's task is in the callback queue while the cursor is before
\* the end and an invocation is executing a top-level instruction
C28_Witness ==
    /\ editor = 2 /\ OneSequence /\ Calls("reset") = 0
    /\ currentIndex < Len(instructions)
    /\ sm.state.eventLoop.callbackQueue # <<>>
    /\ \E t \in DOMAIN threads : InInstruction(t)

\* the frames of invocation t that are function bodies
InCall(t) == threads[t].frames # <<>> /\ Last(threads[t].frames).k = "call"

\* how deep invocation t is inside function bodies
Depth(ths, t) ==
    Cardinality({i \in 1..Len(ths[t].frames) : ths[t].frames[i].k = "call"})

\* the controller loaded one program and never called run() or step() while
\* an earlier invocation had not returned
StepsDoNotOverlap == OneSequence /\ ~hist.overlap

\* invocation t enters a function body: one more scope, of kind function and
\* parented at the scope that was last, and one more frame, on top and active
C29_Enter(t) ==
    (Depth(threads', t) = Depth(threads, t) + 1) =>
        /\ StackNow # <<>> /\ ScopesNow # <<>>
        /\ Len(sm'.state.callStack) = Len(StackNow) + 1
        /\ [i \in 1..Len(StackNow) |-> sm'.state.callStack[i].id] = StackNow
        /\ Last(sm'.state.callStack).isActive
        /\ Len(sm'.state.scopes) = Len(ScopesNow) + 1
        /\ [i \in 1..Len(ScopesNow) |-> sm'.state.scopes[i].id] = ScopesNow
        /\ Last(sm'.state.scopes).type = "function"
        /\ Last(sm'.state.scopes).parentId = Last(ScopesNow)
        /\ Last(sm'.state.scopes).id = Last(threads'[t].frames).scopeId

\* invocation t returns from a function body: the last frame and the last
\* scope are gone, the others are as they were
C29_Return(t) ==
    (Depth(threads', t) = Depth(threads, t) - 1) =>
        /\ [i \in 1..Len(sm'.state.callStack) |-> sm'.state.callStack[i].id] = Front(StackNow)
        /\ [i \in 1..Len(sm'.state.scopes) |-> sm'.state.scopes[i].id] = Front(ScopesNow)
        /\ Last(ScopesNow) = Last(threads[t].frames).scopeId

\* inside a function body at the same depth the frames and scopes stay
C29_Stay(t) ==
    (Depth(threads', t) = Depth(threads, t) /\ Depth(threads, t) > 0) =>
        /\ [i \in 1..Len(sm'.state.callStack) |-> sm'.state.callStack[i].id] = StackNow
        /\ [i \in 1..Len(sm'.state.scopes) |-> sm'.state.scopes[i].id] = ScopesNow

\* while a body is interpreted its scope is the last scope and the top frame
\* is the active one
C29_Inside ==
    \A t \in DOMAIN threads :
        InCall(t) =>
            /\ Last(sm.state.scopes).id = Last(threads[t].frames).scopeId
            /\ Last(sm.state.scopes).type = "function"
            /\ Last(sm.state.callStack).isActive
            /\ Len(sm.state.callStack) = Depth(threads, t) + 1
            /\ Len(sm.state.scopes) = Depth(threads, t) + 1

(* C29: a function call is balanced when steps do not overlap.  While the    *)
(* body is interpreted the scope created for the call, of kind function and  *)
(* parented at the scope that was last when the call was made, is the last   *)
(* scope and the frame pushed for the call is the active top frame; when the *)
(* call returns the call stack and the scope list hold the frames and scopes *)
(* they held before the call, in the same order, at every nesting depth.     *)
C29_CallsAreBalanced ==
    /\ [](StepsDoNotOverlap => C29_Inside)
    /\ [][(StepsDoNotOverlap /\ hist'.calls = hist.calls) =>
             \A t \in DOMAIN threads : C29_Enter(t) /\ C29_Return(t) /\ C29_Stay(t)]_vars

\* the scopes program is in the body of g, called from the body of f
C29_Witness ==
    /\ editor = 7 /\ StepsDoNotOverlap
    /\ \E t \in DOMAIN threads : InCall(t) /\ Depth(threads, t) = 2

\* the call of f, with the nested call of g inside, has returned
C29_Returned ==
    /\ editor = 7 /\ StepsDoNotOverlap /\ ProgramLog = InsideLookups \o <<NumStr(3)>>
    /\ \E t \in DOMAIN threads : threads[t].pc = "instDone" /\ Depth(threads, t) = 0

\* the running invocation is about to execute an assignment to the name
AtAssignmentTo(name) ==
    /\ active # 0 /\ threads[active].pc = "exec"
    /\ AtInstruction.type = "assignment" /\ AtInstruction.name = name

\* the positions of the scopes that bind the name
BindingScopes(name) ==
    {i \in 1..Len(sm.state.scopes) : sm.state.scopes[i].variables[name].type # "unbound"}

\* the value of the expression: a literal's own value, for a reference the
\* value the backward search finds
ValueOf(expr) ==
    IF expr.type = "reference"
    THEN SearchBackward(sm.state.scopes, Len(sm.state.scopes), expr.name)
    ELSE expr.value

(* C30: an assignment to a name that one or more scopes bind gives the new   *)
(* value to the binding of the innermost of them (the latest in the scope    *)
(* list), leaves the binding of the name in every other scope as it was, and *)
(* shows the new value, formatted, for the name in the active frame.         *)
C30_AssignStep ==
    \A name \in Names :
        (AtAssignmentTo(name) /\ BindingScopes(name) # {}) =>
            LET inner == CHOOSE i \in BindingScopes(name) :
                            \A j \in BindingScopes(name) : j <= i
                value == ValueOf(AtInstruction.value)
            IN /\ Len(sm'.state.scopes) = Len(sm.state.scopes)
               /\ sm'.state.scopes[inner].variables[name].value = value
               /\ \A i \in 1..Len(sm.state.scopes) :
                     i # inner => sm'.state.scopes[i].variables[name]
                                     = sm.state.scopes[i].variables[name]
               /\ Len(sm'.state.callStack) = Len(sm.state.callStack)
               /\ Last(sm'.state.callStack).isActive
               /\ Last(sm'.state.callStack).variables[name] =
                     [value |-> formatValue(value), type |-> getValueType(value)]

C30_AssignmentUpdatesInnermost == [][C30_AssignStep]_vars

\* inside f of the scopes program x = 3 has been executed: the scope of f
\* binds x to 3, the global scope still binds x to 1
C30_Witness ==
    /\ editor = 7 /\ Len(sm.state.scopes) = 2
    /\ sm.state.scopes[2].variables["x"].value = Num(3)
    /\ sm.state.scopes[1].variables["x"].value = Num(1)
    /\ Last(sm.state.callStack).variables["x"].value = NumStr(3)

----------------------------------------------------------------------------
(* The claims about unbound names, nested declarations, reset and the flags *)

(* C31: an assignment to a name that no scope binds falls back to the        *)
(* current scope: after it the last scope of the list binds the name to the  *)
(* assigned value, so that the program y = 5; console.log(y) logs 5.         *)
C31_AssignUnboundStep ==
    \A name \in Names :
        (AtAssignmentTo(name) /\ BindingScopes(name) = {} /\ sm.state.scopes # <<>>) =>
            /\ sm'.state.scopes # <<>>
            /\ Last(sm'.state.scopes).variables[name].type # "unbound"
            /\ Last(sm'.state.scopes).variables[name].value = ValueOf(AtInstruction.value)

C31_UnboundAssignmentBinds ==
    /\ [][C31_AssignUnboundStep]_vars
    /\ []((editor = 11 /\ OnlyRun /\ RunReturned) => ProgramLog = <<NumStr(5)>>)

----------------------------------------------------------------------------
(* The claim about the accumulation of function bodies *)

\* the net count of "{" minus "}" over the lines i..j of the text
RECURSIVE NetBraces(_, _, _)
NetBraces(code, i, j) ==
    IF i > j THEN 0 ELSE code[i].opens - code[i].closes + NetBraces(code, i + 1, j)

IsFunctionLine(ln) == ~ln.blank /\ "function" \in ln.matches

\* the lines after the function-declaration line i at which the net count
\* over the lines read since i is zero
ClosingLines(code, i) ==
    {j \in (i + 1)..Len(code) : ~code[j].blank /\ NetBraces(code, i, j) = 0}

Least(S) == CHOOSE x \in S : \A y \in S : x <= y

\* the line that ends the function declared on line i: i itself for a
\* declaration that opens and closes on its line, 0 when the count never
\* returns to zero
EndLine(code, i) ==
    IF NetBraces(code, i, i) = 0 THEN i
    ELSE IF ClosingLines(code, i) = {} THEN 0
    ELSE Least(ClosingLines(code, i))

\* the top-level function declarations of the text from line i on, as pairs
\* of start and end line; a declaration that is never closed takes the rest
RECURSIVE Declarations(_, _)
Declarations(code, i) ==
    IF i > Len(code) THEN {}
    ELSE IF ~IsFunctionLine(code[i]) THEN Declarations(code, i + 1)
    ELSE IF EndLine(code, i) = 0 THEN {<<i, 0>>}
    ELSE {<<i, EndLine(code, i)>>} \cup Declarations(code, EndLine(code, i) + 1)

\* line k is read as body text: it follows the start of a declaration and
\* does not come after its end
InBody(code, k) ==
    \E d \in Declarations(code, 1) : d[1] < k /\ (d[2] = 0 \/ k <= d[2])

\* the lines strictly between start and end that are not empty
BodyLines(code, d) ==
    LET Kept(k) == ~code[k].blank
        ks == SelectSeq([k \in 1..(d[2] - d[1] - 1) |-> d[1] + k], Kept)
    IN [n \in 1..Len(ks) |-> code[ks[n]]]

(* C32: the accumulation of a function body is a brace-depth state machine.  *)
(* From a function-declaration line until the net count of "{" minus "}"     *)
(* over the lines read is zero again every line is body text and gives no    *)
(* instruction of its own, a nested function declaration included; when the  *)
(* count is zero exactly one function-declaration instruction is emitted,    *)
(* with the start line, the end line and the body lines; the lines after it  *)
(* are translated as top-level statements again.                             *)
C32_BodyByBraceDepth ==
    Translated =>
        LET code == editor
            out == instructions
            closed == {d \in Declarations(code, 1) : d[2] # 0}
            emitted == {n \in 1..Len(out) : out[n].type = "functionDeclaration"}
        IN /\ \A n \in 1..Len(out) :
                  out[n].type # "hoistingPhase" => ~InBody(code, out[n].line)
           /\ Cardinality(emitted) = Cardinality(closed)
           /\ \A d \in closed : \E n \in emitted :
                  /\ out[n].name = code[d[1]].name
                  /\ out[n].line = d[1] /\ out[n].endLine = d[2]
                  /\ out[n].body = IF d[1] = d[2] THEN code[d[1]].text ELSE BodyLines(code, d)
           /\ \A k \in 1..Len(code) :
                  (/\ ~InBody(code, k) /\ ~code[k].blank /\ ~IsFunctionLine(code[k])
                   /\ Recognise(code[k], k).type # "none")
                    => \E n \in 1..Len(out) : out[n] = Recognise(code[k], k)

\* a function over three lines with a single-line function declaration inside,
\* followed by a statement: one instruction for lines 1 to 3, one for line 4
C32_Witness ==
    /\ Translated
    /\ editor = <<FunctionOpenLine("g", <<"a">>), FunctionInline("f", <<>>, <<LogLine("f")>>),
                  CloseLine, LogLine("s")>>
    /\ \E n \in 1..Len(instructions) :
          /\ instructions[n].type = "functionDeclaration"
          /\ instructions[n].line = 1 /\ instructions[n].endLine = 3
    /\ \E n \in 1..Len(instructions) :
          instructions[n].type = "console" /\ instructions[n].line = 4

-----------------------------------------------------------------------------
(* The claim about a call of a function declared inside another body *)

\* the running invocation is inside the body of a function call and is about
\* to execute a call of a function that the body declares and the program's
\* own instruction list does not
AtNestedCall ==
    /\ active # 0 /\ threads[active].pc = "exec"
    /\ InCall(active)
    /\ AtInstruction.type = "functionCall"
    /\ \E i \in 1..Len(Last(threads[active].frames).insts) :
          LET d == Last(threads[active].frames).insts[i]
          IN d.type = "functionDeclaration" /\ d.name = AtInstruction.name
    /\ \A i \in 1..Len(instructions) :
          ~(instructions[i].type = "functionDeclaration"
            /\ instructions[i].name = AtInstruction.name)

(* C33: a call of a function that is declared only inside another function's *)
(* body is not resolved, even while that body is being interpreted: the call *)
(* writes one console entry of type error naming the function, no frame and  *)
(* no scope is created and the body of the inner function never runs: under  *)
(* run() the program function f() { function g() { console.log("in g") }     *)
(* g() } f() ends with one error entry and nothing logged.                   *)
C33_NestedCallStep ==
    AtNestedCall =>
        /\ Len(hist'.console) = Len(hist.console) + 1
        /\ Last(hist'.console).type = "error"
        /\ Last(hist'.console).text =
              "ReferenceError: " \o AtInstruction.name \o " is not defined"
        /\ sm'.state.callStack = sm.state.callStack
        /\ sm'.state.scopes = sm.state.scopes
        /\ threads'[active].frames = threads[active].frames

C33_NestedDeclarationUnresolved ==
    /\ [][C33_NestedCallStep]_vars
    /\ [](editor = 12 => ProgramLog = <<>>)
    /\ []((editor = 12 /\ OnlyRun /\ RunReturned) => Len(ErrorLog) = 1)

\* the call of g inside the body of f has written its error, the body of f
\* has ended and the run has returned with nothing logged
C33_Witness ==
    /\ editor = 12 /\ OnlyRun /\ RunReturned
    /\ Len(ErrorLog) = 1 /\ ProgramLog = <<>>
    /\ ErrorLog[1].text = "ReferenceError: g is not defined"

-----------------------------------------------------------------------------
(* The claim about the timers of a Store that is reset *)

\* the identities of the tasks of a queue
TaskIds(queue) == {queue[i].id : i \in 1..Len(queue)}

\* the running invocation is about to execute a setTimeout or a
\* Promise.resolve().then instruction
AtRegistration ==
    /\ active # 0 /\ threads[active].pc = "exec"
    /\ AtInstruction.type \in {"setTimeout", "promise"}

(* C34: reset() cancels the migration of every timer task registered before  *)
(* it: no outstanding host timer is left that would move such a task, and no *)
(* such task is ever in the pending-timer queue or the callback queue again; *)
(* the three queues are empty after reset() and, once empty, get their next  *)
(* task only from a step that executes a timer or a deferred-resolution      *)
(* registration.                                                             *)
C34_QueuesFilledByRegistration ==
    (Calls("reset") > 0 /\ QueuesEmpty /\ ~QueuesEmpty') => AtRegistration

C34_ResetCancelsMigrations ==
    /\ [](\A timer \in hostTimers : timer.kind = "migrate" => timer.task \notin hist.dropped)
    /\ [](TaskIds(sm.state.eventLoop.callbackQueue) \cap hist.dropped = {})
    /\ [](TaskIds(sm.state.eventLoop.webAPIs) \cap hist.dropped = {})
    /\ [][(Calls("reset")' > Calls("reset")) => QueuesEmpty']_vars
    /\ [][C34_QueuesFilledByRegistration]_vars

\* a reset() found a timer task registered, and after it a new timer task has
\* been registered and has migrated to the callback queue
C34_Witness ==
    /\ hist.dropped # {}
    /\ sm.state.eventLoop.callbackQueue # <<>>

-----------------------------------------------------------------------------
(* The claim about heap identities across a reset *)

(* C35: heap identities are never reused, a reset() included: an identity     *)
(* that allocateHeap returns after a reset differs from every identity it    *)
(* returned before that reset.                                                *)
C35_HeapIdsNeverReused ==
    \A i \in 1..Len(hist.heapLog) :
        hist.heapLog[i].op = "allocate" => hist.heapLog[i].id \notin hist.retired

-----------------------------------------------------------------------------
(* The claim about the call stack beside the scope list *)

\* frame i and scope i were made for the same execution context: the global
\* pair of init(), or the pair of a call or of a callback task, which carry
\* the same name
SameContext(frame, scope) ==
    IF frame.type = "global" THEN scope.type = "global"
    ELSE scope.type = "function" /\ scope.name = frame.name

C36_Paired ==
    LET cs == sm.state.callStack
        sc == sm.state.scopes
    IN /\ Len(cs) = Len(sc)
       /\ Len(cs) >= 1
       /\ cs[1].type = "global" /\ sc[1].type = "global" /\ sc[1].id = globalScope
       /\ \A i \in 1..Len(cs) : SameContext(cs[i], sc[i])
       /\ \A i \in 2..Len(cs) : cs[i].type # "global"

\* a step pushes a frame exactly when it creates a scope and removes a frame
\* exactly when it destroys a scope, and it is the last of each
C36_Together ==
    LET cs == sm.state.callStack
        sc == sm.state.scopes
        cs2 == sm'.state.callStack
        sc2 == sm'.state.scopes
        Ids(q) == [i \in 1..Len(q) |-> q[i].id]
    IN \/ Ids(cs2) = Ids(cs) /\ Ids(sc2) = Ids(sc)
       \/ /\ Len(cs2) = Len(cs) + 1 /\ Len(sc2) = Len(sc) + 1
          /\ Ids(Front(cs2)) = Ids(cs) /\ Ids(Front(sc2)) = Ids(sc)
       \/ Ids(cs2) = Ids(Front(cs)) /\ Ids(sc2) = Ids(Front(sc))

(* C36: when steps do not overlap, after init() the call stack and the scope *)
(* list have the same length and correspond position by position: the first *)
(* frame is the global frame and the first scope the global scope, and the   *)
(* i-th frame was pushed in the same step as the i-th scope was created, for *)
(* the same call or callback task, and leaves in the same step as it.        *)
C36_StackMirrorsScopes ==
    /\ [](StepsDoNotOverlap => C36_Paired)
    /\ [][(StepsDoNotOverlap /\ hist'.calls = hist.calls) => C36_Together]_vars

\* the body of a timer callback is being interpreted: its frame and its scope
\* are second after the global pair
C36_Witness ==
    /\ StepsDoNotOverlap
    /\ Len(sm.state.callStack) = 2 /\ Len(sm.state.scopes) = 2
    /\ sm.state.callStack[2].name = "setTimeout callback"
    /\ \E t \in DOMAIN threads :
          threads[t].frames # <<>> /\ Last(threads[t].frames).k = "cb"

-----------------------------------------------------------------------------
(* The claim about the frame a finishing call removes *)

\* init() was called once, first, and every later call is a run() or a step()
RunsAndSteps ==
    /\ OneSequence
    /\ \A i \in 2..Len(hist.calls) : hist.calls[i] \in {"run", "step"}

\* the step ends a function call or a callback task: whenever it pops a frame
\* and destroys a scope, the two were made together
C37_FinishStep ==
    \A i, j \in 1..Len(sm'.notes) :
        (/\ sm'.notes[i].event = "callStack" /\ sm'.notes[i].action = "pop"
         /\ sm'.notes[j].event = "scopes" /\ sm'.notes[j].action = "destroy") =>
            [scope |-> sm'.notes[j].id, frame |-> sm'.notes[i].id] \in hist.pairs

(* C37: under every interleaving of run() and step(), overlapping bodies      *)
(* included, the frame that is removed when a function call or a callback    *)
(* task finishes is the frame that this call or task pushed, and the scope   *)
(* destroyed with it is the scope created with it.                           *)
C37_FinishPopsOwnFrame ==
    [][RunsAndSteps => C37_FinishStep]_vars

-----------------------------------------------------------------------------
(* The claims about the execution flags *)

(* C38: after any sequence of init, run, step, pause, resume, stop and reset *)
(* the flags isRunning and isPaused of the Store equal the interpreter's own *)
(* flags, also when pause() or resume() is called while no run is in flight. *)
C38_StoreFlagsMirrorExecutor ==
    hist.calls # <<>> =>
        /\ sm.state.isRunning = isRunning
        /\ sm.state.isPaused = isPaused

\* an invocation of run() that has neither returned nor been cut off
LiveRunLoop ==
    \E t \in DOMAIN threads :
        threads[t].kind = "run" /\ threads[t].pc \notin {"ended", "returned"}

(* C39: whenever the Store reports isRunning = true and isPaused = false a    *)
(* run loop is live that will execute the next step or complete; so after a  *)
(* first step() followed by resume() execution goes on without a further     *)
(* control call.                                                              *)
C39_RunningMeansLiveLoop ==
    (OneSequence /\ sm.state.isRunning /\ ~sm.state.isPaused) => LiveRunLoop

-----------------------------------------------------------------------------
(* The claim about the interpreter's own lists of pending work *)

\* no invocation is inside step(): each one waits between two steps, waits
\* paused, has returned or was cut off
AtStepBoundary ==
    /\ active = 0
    /\ \A t \in DOMAIN threads :
          threads[t].pc \in {"pacing", "pausedWait", "returned", "ended"}

(* C40: at every step boundary, when steps do not overlap, the interpreter's *)
(* pendingTimers list has as many records as the pending-timer queue and the *)
(* callback queue of the Store hold tasks together, and its pendingMicrotasks*)
(* list is as long as the microtask queue.                                    *)
C40_PendingListsMatchQueues ==
    (StepsDoNotOverlap /\ Calls("reset") = 0 /\ AtStepBoundary) =>
        /\ Len(pendingTimers) = Len(sm.state.eventLoop.webAPIs)
                                  + Len(sm.state.eventLoop.callbackQueue)
        /\ Len(pendingMicrotasks) = Len(sm.state.eventLoop.microtaskQueue)

====
